---- MODULE Spec2Model ----
(***************************************************************************)
(* A model of pdfcpu's command stack: cli.Process dispatches a command to  *)
(* a file based api function, which opens its files and calls the          *)
(* io.ReadSeeker/io.Writer based function, which runs the pipeline stages  *)
(* (read, validate, optimize, transform, write) against the core.          *)
(* The core (pdf.Read, validate.XRefTable, pdf.OptimizeXRefTable,          *)
(* pdf.Write, ...) is an environment: each call ends ok, with an error or  *)
(* with a panic.  The file system and the os calls whose errors the code   *)
(* checks (Open, Create, Close, Rename) are part of the state.             *)
(***************************************************************************)
EXTENDS Integers, Sequences, FiniteSets, TLC

\* ------------------------------------------------------------------ bounds
MaxPages == 7
MaxSpan == 3
MaxInputs == 3
MaxImgs == 2
MaxCmds == 3
MaxArgs == 4

\* --------------------------------------------------------------- variables
VARIABLES
    cmd,        \* the call: entry layer, Mode, file names, span, ... (never changes)
    conf,       \* the *pdf.Configuration the call works on
    pc,         \* position in the stack of calls
    todo,       \* the stages the io based function still has to run
    ctx,        \* the pdf.Context: PageCount
    loop,       \* writePDFSequence's loop counter i
    trace,      \* the core calls made so far, with their results
    written,    \* the page ranges writeSpan has written, in order
    fs,         \* the file system: name -> content
    open,       \* the file handles that are open
    ret,        \* what each layer returned: "-" (not yet), "nil", "err"
    panicking,  \* "no", "yes" (unwinding), "recovered", "escaped"
    proc        \* the pdfcpu command: os.Args, CommandMap.Handle's frame, the exit code

vars == <<proc, cmd, conf, pc, todo, ctx, loop, trace, written, fs, open, ret, panicking>>

\* ------------------------------------------------------------ Go integers
Abs(n) == IF n < 0 THEN -n ELSE n

\* Go's integer division truncates toward zero (b # 0).
GoDiv(a, b) ==
    LET q == Abs(a) \div Abs(b)
    IN  IF (a < 0) = (b < 0) THEN q ELSE -q

\* Go's remainder has the sign of the dividend (b # 0).
GoMod(a, b) == a - b * GoDiv(a, b)

\* ------------------------------------------------------------------ names
InName(k) == IF k = 1 THEN "in.pdf" ELSE "in" \o ToString(k) \o ".pdf"
ImgName(k) == "img" \o ToString(k) \o ".png"
OutName == "out.pdf"
Tmp(f) == f \o ".tmp"

InNames == {InName(k) : k \in 1..MaxInputs}
ImgNames == {ImgName(k) : k \in 1..MaxImgs}
Names == InNames \cup ImgNames \cup {OutName, Tmp(InName(1)), Tmp(OutName)}

\* A file handle: f1, f2, ff[n] (MergeFile), rc[n] (ImportImagesFile).
H(h, n) == [h |-> h, n |-> n]
F1 == H("f1", 0)
F2 == H("f2", 0)

ValidationModes == {"None", "Relaxed", "Strict"}

\* The modes of cli's cmdMap that the model runs.
TmpModes == {"OPTIMIZE", "ENCRYPT", "DECRYPT", "CHANGEUPW", "CHANGEOPW", "SETPERMISSIONS",
             "TRIM", "ROTATE", "ADDWATERMARKS", "INSERTPAGES", "REMOVEPAGES"}
cmdMap == TmpModes \cup {"VALIDATE", "SPLIT", "NUP", "IMPORTIMAGES", "MERGE"}
Modes == cmdMap \cup {"UNKNOWN"}

\* The api functions that require a configuration.
\* SetPermissionsFile without its test of conf.
ConfRequiredByOptimizeFile == {"ENCRYPT", "DECRYPT", "CHANGEUPW", "CHANGEOPW"}

ConfRequired == {"ENCRYPT", "DECRYPT", "CHANGEUPW", "CHANGEOPW", "SETPERMISSIONS"}

NilConf == [nil |-> TRUE, Cmd |-> "-", ValidationMode |-> "-", Stats |-> FALSE]
NewDefaultConfiguration ==
    [nil |-> FALSE, Cmd |-> "VALIDATE", ValidationMode |-> "Relaxed", Stats |-> FALSE]

\* ------------------------------------------------------------ the pipeline
St(k, c) == [k |-> k, c |-> c]
\* Contexts are numbered by the input they are read from: 1 is the context the
\* function works on (ctxDest in Merge), k > 1 Merge's k-th source.
Dest == 1

readAndValidate(c, m) ==
    <<St("read", c)>> \o (IF m = "None" THEN <<>> ELSE <<St("validate", c)>>)

\* Optimization ahead of validation.
readOptimizeAndValidate(c, m) ==
    <<St("read", c), St("optimize", c)>> \o (IF m = "None" THEN <<>> ELSE <<St("validate", c)>>)

readValidateAndOptimize(c, m) == readAndValidate(c, m) \o <<St("optimize", c)>>

\* The changed context goes to the writer as it is.
revalidateNever(c, m) == <<>>

\* if conf.ValidationMode != pdf.ValidationNone { ValidateContext(ctx) }
revalidate(c, m) == IF m # "None" THEN <<St("validate", c)>> ELSE <<>>

RECURSIVE Repeat(_, _)
Repeat(s, n) == IF n <= 0 THEN <<>> ELSE s \o Repeat(s, n - 1)

RECURSIVE appendAll(_, _, _)
\* for _, f := range rsc[1:] { appendTo(f, ctxDest) }
appendAll(k, n, m) ==
    IF k > n THEN <<>>
    ELSE readAndValidate(k, m) \o <<St("merge", k)>> \o appendAll(k + 1, n, m)

ValidateStages(m) == <<St("read", Dest), St("validate", Dest)>>

OptimizeStages(m, stats) ==
    readValidateAndOptimize(Dest, m) \o <<St("write", Dest)>>
        \o (IF stats THEN <<St("stats", Dest)>> ELSE <<>>)

SetPermissionsStages(m) == readValidateAndOptimize(Dest, m) \o <<St("write", Dest)>>

SplitStages(m) == readValidateAndOptimize(Dest, m) \o <<St("split", Dest)>>

TrimStages(m) ==
    readValidateAndOptimize(Dest, m) \o <<St("select", Dest), St("write", Dest)>>

RotateStages(m) ==
    readValidateAndOptimize(Dest, m)
        \o <<St("select", Dest), St("transform", Dest)>>
        \o revalidate(Dest, m) \o <<St("write", Dest)>>

AddWatermarksStages(m) ==
    readValidateAndOptimize(Dest, m)
        \o <<St("select", Dest), St("transform", Dest)>>
        \o revalidate(Dest, m) \o <<St("write", Dest)>>

NUpStages(m, img) ==
    (IF img THEN <<St("create", Dest)>>
     ELSE readAndValidate(Dest, m) \o <<St("select", Dest), St("transform", Dest)>>)
        \o revalidate(Dest, m) \o <<St("write", Dest)>>

ImportImagesStages(m, hasRs, nImgs) ==
    (IF hasRs THEN readAndValidate(Dest, m) ELSE <<St("create", Dest)>>)
        \o <<St("pages", Dest)>>
        \o Repeat(<<St("newpage", Dest)>>, nImgs)
        \o revalidate(Dest, m) \o <<St("write", Dest)>>

InsertPagesStages(m) ==
    readValidateAndOptimize(Dest, m)
        \o <<St("select", Dest), St("transform", Dest)>>
        \o revalidate(Dest, m) \o <<St("write", Dest)>>

RemovePagesStages(m) ==
    readValidateAndOptimize(Dest, m)
        \o <<St("select", Dest), St("check", Dest), St("write", Dest)>>

MergeStagesRangeAll(m, n) ==
    readAndValidate(Dest, m) \o appendAll(1, n, m)
        \o <<St("optimize", Dest)>> \o revalidate(Dest, m) \o <<St("write", Dest)>>

MergeStages(m, n) ==
    readAndValidate(Dest, m) \o appendAll(2, n, m)
        \o <<St("optimize", Dest)>> \o revalidate(Dest, m) \o <<St("write", Dest)>>


\* The stages the io based function of a mode runs (Encrypt, Decrypt and the
\* password changes run Optimize).
Program(mode, m, stats, arg, hasRs, nIn, nImgs) ==
    CASE mode = "VALIDATE" -> ValidateStages(m)
      [] mode \in {"OPTIMIZE", "ENCRYPT", "DECRYPT", "CHANGEUPW", "CHANGEOPW"} ->
            OptimizeStages(m, stats)
      [] mode = "SETPERMISSIONS" -> SetPermissionsStages(m)
      [] mode = "SPLIT" -> SplitStages(m)
      [] mode = "TRIM" -> TrimStages(m)
      [] mode = "ROTATE" -> RotateStages(m)
      [] mode = "ADDWATERMARKS" -> AddWatermarksStages(m)
      [] mode = "NUP" -> NUpStages(m, arg = "img")
      [] mode = "IMPORTIMAGES" -> ImportImagesStages(m, hasRs, nImgs)
      [] mode = "INSERTPAGES" -> InsertPagesStages(m)
      [] mode = "REMOVEPAGES" -> RemovePagesStages(m)
      [] mode = "MERGE" -> MergeStages(m, nIn)

\* ------------------------------------------------------------- the inputs
Spans(mode) == IF mode = "SPLIT" THEN (-MaxSpan)..MaxSpan ELSE {1}
PageCounts(mode) == IF mode \in {"SPLIT", "REMOVEPAGES"} THEN 1..MaxPages ELSE {1}
Args(mode) ==
    CASE mode = "ADDWATERMARKS" -> {"ok", "nil"}
      [] mode = "NUP" -> {"pdf", "img", "nil"}
      [] OTHER -> {"ok"}
NIns(mode, arg) ==
    CASE mode = "MERGE" -> 0..MaxInputs
      [] mode = "IMPORTIMAGES" -> {0}
      [] mode = "NUP" /\ arg = "img" -> {0}
      [] OTHER -> {1}
NImgs(mode, arg) ==
    CASE mode = "IMPORTIMAGES" -> 0..MaxImgs
      [] mode = "NUP" /\ arg = "img" -> 1..MaxImgs
      [] OTHER -> {0}
OutFiles(mode) ==
    CASE mode \in TmpModes -> {"", InName(1), OutName}
      [] mode \in {"NUP", "MERGE"} -> {OutName, InName(1)}
      [] mode = "IMPORTIMAGES" -> {OutName}
      [] OTHER -> {""}
Confs(mode) ==
    {NilConf} \cup
    {[nil |-> FALSE, Cmd |-> "VALIDATE", ValidationMode |-> m, Stats |-> s] :
        m \in ValidationModes, s \in (IF mode = "OPTIMIZE" THEN BOOLEAN ELSE {FALSE})}

\* The files that exist before the call: every input but the missing one,
\* and out.pdf when outExists.
InitialFs(nIn, nImg, missing, outExists) ==
    [f \in Names |->
        IF \E k \in 1..nIn : f = InName(k) /\ k # missing THEN "orig"
        ELSE IF \E k \in 1..nImg : f = ImgName(k) /\ nIn + k # missing THEN "orig"
        ELSE IF f = OutName /\ outExists THEN "orig"
        ELSE "absent"]

\* No command line: the api is called as a library.
NoProc == [at |-> "-"]
NoCtx == [PageCount |-> 0, pages |-> 0, seq |-> <<>>, SelectedPages |-> {}, w |-> {}]
NoRet == [io |-> "-", file |-> "-", cli |-> "-"]

Init ==
    \E entry \in {"cli", "file", "io"}, mode \in Modes :
    \E c \in Confs(mode), span \in Spans(mode), pages \in PageCounts(mode),
       arg \in Args(mode), outFile \in OutFiles(mode), outExists \in BOOLEAN :
    \E nIn \in NIns(mode, arg), nImg \in NImgs(mode, arg) :
    \E missing \in 0..(nIn + nImg) :
        /\ mode = "UNKNOWN" => entry = "cli"
        \* the io based function called by a library user: SetPermissions,
        \* with a reader of in.pdf and a writer to out.pdf
        /\ entry = "io" => mode = "SETPERMISSIONS" /\ outFile = OutName
        /\ outExists => outFile = OutName
        /\ cmd = [entry |-> entry, Mode |-> mode, confNil |-> c.nil,
                  ValidationMode |-> c.ValidationMode, span |-> span,
                  pages |-> pages, arg |-> arg, nIn |-> nIn, nImg |-> nImg,
                  outFile |-> outFile,
                  fs0 |-> InitialFs(nIn, nImg, missing, outExists)]
        /\ conf = c
        /\ pc = CASE entry = "cli" -> "Process" [] entry = "file" -> "File"
                  [] entry = "io" -> "Io"
        /\ todo = <<>>
        /\ ctx = NoCtx
        /\ loop = 0
        /\ trace = <<>>
        /\ written = <<>>
        /\ fs = InitialFs(nIn, nImg, missing, outExists)
        /\ open = {}
        /\ ret = NoRet
        /\ panicking = "no"
        /\ proc = NoProc

inFile == InName(1)

\* ------------------------------------------------------------ cli.Process
\* Process sets conf.Cmd and runs the function cmdMap holds for the mode; the
\* functions of the cli package call the file based api function, Validate
\* after rejecting ValidationNone.
Process ==
    /\ pc = "Process"
    /\ UNCHANGED <<proc, cmd, todo, ctx, loop, trace, written, fs, open>>
    /\ IF conf.nil
       THEN \* cmd.Conf.Cmd = cmd.Mode dereferences nil
            /\ panicking' = "yes"
            /\ pc' = "ProcessRet"
            /\ UNCHANGED <<conf, ret>>
       ELSE /\ conf' = [conf EXCEPT !.Cmd = cmd.Mode]
            /\ UNCHANGED panicking
            /\ IF cmd.Mode \notin cmdMap
               THEN pc' = "ProcessRet" /\ ret' = [ret EXCEPT !.cli = "err"]
               ELSE IF cmd.Mode = "VALIDATE" /\ conf.ValidationMode = "None"
               THEN pc' = "ProcessRet" /\ ret' = [ret EXCEPT !.cli = "err"]
               ELSE pc' = "File" /\ UNCHANGED ret

\* Without the deferred recover() a panic goes on unwinding.
noRecover(p) == p
\* defer func() { if r := recover(); r != nil { err = ... } }()
recover(p) == IF p = "yes" THEN "recovered" ELSE p

\* Process returns: its deferred function turns a panic into an error.
ProcessReturn ==
    /\ pc = "ProcessRet"
    /\ pc' = "Done"
    /\ panicking' = recover(panicking)
    /\ ret' = [ret EXCEPT !.cli = IF panicking' = "recovered" THEN "err"
                                  ELSE IF panicking' = "yes" THEN "-"
                                  ELSE IF ret.cli # "-" THEN ret.cli ELSE ret.file]
    /\ UNCHANGED <<proc, cmd, conf, todo, ctx, loop, trace, written, fs, open>>

\* --------------------------------------------------------- the file layer
\* Where control goes when the file based function is left.
AfterFile == IF cmd.entry = "cli" THEN "ProcessRet" ELSE "Done"
\* A panic that leaves the file based function escapes to an api caller.
Unwind(p) == IF p = "yes" /\ cmd.entry = "file" THEN "escaped" ELSE p

\* Where control goes when the io based function is left: to the deferred
\* function of the file based function, or back to the library user.
AfterIo == IF cmd.entry = "io" THEN "Done" ELSE "Deferred"

\* The file based function returns e before it calls the io based function.
FileReturns(e) ==
    /\ ret' = [ret EXCEPT !.file = e]
    /\ pc' = AfterFile
    /\ UNCHANGED panicking

tmpFile ==
    IF cmd.outFile # "" /\ inFile # cmd.outFile THEN cmd.outFile ELSE Tmp(inFile)

InPlace == cmd.outFile = "" \/ inFile = cmd.outFile

\* OptimizeFile, SetPermissionsFile, TrimFile, RotateFile, AddWatermarksFile,
\* InsertPagesFile, RemovePagesFile up to their defer statement; EncryptFile,
\* DecryptFile, ChangeUserPasswordFile, ChangeOwnerPasswordFile before they
\* call OptimizeFile.
TmpFileBegin ==
    /\ pc = "File"
    /\ cmd.Mode \in TmpModes
    /\ UNCHANGED <<proc, cmd, todo, ctx, loop, trace, written>>
    /\ IF cmd.Mode \in ConfRequired /\ conf.nil
       THEN FileReturns("err") /\ UNCHANGED <<conf, fs, open>>
       ELSE /\ conf' = IF cmd.Mode \in {"ENCRYPT", "DECRYPT", "CHANGEUPW", "CHANGEOPW"}
                       THEN [conf EXCEPT !.Cmd = cmd.Mode] ELSE conf
            /\ IF fs[inFile] = "absent"
               THEN FileReturns("err") /\ UNCHANGED <<fs, open>>
               ELSE \E created \in BOOLEAN :
                      IF created
                      THEN /\ open' = open \cup {F1, F2}
                           /\ fs' = [fs EXCEPT ![tmpFile] = "empty"]
                           /\ pc' = "Io"
                           /\ UNCHANGED <<ret, panicking>>
                      ELSE /\ open' = open \cup {F1}
                           /\ FileReturns("err")
                           /\ UNCHANGED fs


\* ValidateFile up to its call of Validate.
ValidateFileBegin ==
    /\ pc = "File"
    /\ cmd.Mode = "VALIDATE"
    /\ UNCHANGED <<proc, cmd, todo, ctx, loop, trace, written, fs>>
    /\ LET c == IF conf.nil THEN NewDefaultConfiguration ELSE conf
       IN  /\ conf' = c
           /\ IF c.ValidationMode = "None"
              THEN FileReturns("nil") /\ UNCHANGED open
              ELSE IF fs[inFile] = "absent"
              THEN FileReturns("err") /\ UNCHANGED open
              ELSE /\ open' = open \cup {F1}
                   /\ pc' = "Io"
                   /\ UNCHANGED <<ret, panicking>>

\* SplitFile up to its call of Split.
SplitFileBegin ==
    /\ pc = "File"
    /\ cmd.Mode = "SPLIT"
    /\ UNCHANGED <<proc, cmd, conf, todo, ctx, loop, trace, written, fs>>
    /\ IF fs[inFile] = "absent"
       THEN FileReturns("err") /\ UNCHANGED open
       ELSE /\ open' = open \cup {F1}
            /\ pc' = "Io"
            /\ UNCHANGED <<ret, panicking>>

\* NUpFile up to its defer statement.
NUpFileBegin ==
    /\ pc = "File"
    /\ cmd.Mode = "NUP"
    /\ UNCHANGED <<proc, cmd, conf, todo, ctx, loop, trace, written>>
    /\ IF cmd.arg = "nil"
       THEN \* nup.ImgInputFile dereferences nil
            /\ panicking' = Unwind("yes")
            /\ pc' = AfterFile
            /\ UNCHANGED <<ret, fs, open>>
       ELSE LET in == IF cmd.arg = "pdf" THEN {F1} ELSE {}
            IN  IF cmd.arg = "pdf" /\ fs[inFile] = "absent"
                THEN FileReturns("err") /\ UNCHANGED <<fs, open>>
                ELSE \E created \in BOOLEAN :
                       IF created
                       THEN /\ open' = open \cup in \cup {F2}
                            /\ fs' = [fs EXCEPT ![cmd.outFile] = "empty"]
                            /\ pc' = "Io"
                            /\ UNCHANGED <<ret, panicking>>
                       ELSE /\ open' = open \cup in
                            /\ FileReturns("err")
                            /\ UNCHANGED fs

\* The index of the first file of names that does not exist, 0 when all do.
FirstMissing(names) ==
    IF \E k \in 1..Len(names) : fs[names[k]] = "absent"
    THEN CHOOSE k \in 1..Len(names) :
            fs[names[k]] = "absent" /\ \A j \in 1..(k - 1) : fs[names[j]] # "absent"
    ELSE 0

\* fileExists(outFile)
hasF1 == cmd.fs0[cmd.outFile] # "absent"
importTmp == IF hasF1 THEN Tmp(cmd.outFile) ELSE cmd.outFile

\* ImportImagesFile up to its defer statement.
ImportImagesFileBegin ==
    /\ pc = "File"
    /\ cmd.Mode = "IMPORTIMAGES"
    /\ UNCHANGED <<proc, cmd, conf, todo, ctx, loop, trace, written>>
    /\ LET k == FirstMissing([j \in 1..cmd.nImg |-> ImgName(j)])
           f1 == IF hasF1 THEN {F1} ELSE {}
       IN  IF k > 0
           THEN /\ open' = open \cup f1 \cup {H("rc", j) : j \in 1..(k - 1)}
                /\ FileReturns("err")
                /\ UNCHANGED fs
           ELSE \E created \in BOOLEAN :
                  IF created
                  THEN /\ open' = open \cup f1 \cup {H("rc", j) : j \in 1..cmd.nImg} \cup {F2}
                       /\ fs' = [fs EXCEPT ![importTmp] = "empty"]
                       /\ pc' = "Io"
                       /\ UNCHANGED <<ret, panicking>>
                  ELSE /\ open' = open \cup f1 \cup {H("rc", j) : j \in 1..cmd.nImg}
                       /\ FileReturns("err")
                       /\ UNCHANGED fs

\* MergeFile up to its defer statement.
MergeFileBegin ==
    /\ pc = "File"
    /\ cmd.Mode = "MERGE"
    /\ UNCHANGED <<proc, cmd, conf, todo, ctx, loop, trace, written>>
    /\ LET k == FirstMissing([j \in 1..cmd.nIn |-> InName(j)])
       IN  IF k > 0
           THEN /\ open' = open \cup {H("ff", j) : j \in 1..(k - 1)}
                /\ FileReturns("err")
                /\ UNCHANGED fs
           ELSE \E created \in BOOLEAN :
                  IF created
                  THEN /\ open' = open \cup {H("ff", j) : j \in 1..cmd.nIn} \cup {F2}
                       /\ fs' = [fs EXCEPT ![cmd.outFile] = "empty"]
                       /\ pc' = "Io"
                       /\ UNCHANGED <<ret, panicking>>
                  ELSE /\ open' = open \cup {H("ff", j) : j \in 1..cmd.nIn}
                       /\ FileReturns("err")
                       /\ UNCHANGED fs


\* ----------------------------------------------------------- the io layer
OptimizeModes == {"OPTIMIZE", "ENCRYPT", "DECRYPT", "CHANGEUPW", "CHANGEOPW"}

\* The io based function ends: its result, then the caller's deferred function.
IoReturns(e) ==
    /\ ret' = [ret EXCEPT !.io = e]
    /\ pc' = AfterIo
    /\ UNCHANGED panicking

IoPanics ==
    /\ panicking' = IF cmd.entry = "io" THEN "escaped" ELSE "yes"
    /\ pc' = AfterIo
    /\ UNCHANGED ret

\* The configuration in effect after the io based function's first lines:
\* a nil conf becomes the default one, conf.Cmd is set (by Optimize only for
\* a nil conf), RemovePages switches validation on.
Configured(mode, c) ==
    LET c0 == IF c.nil THEN NewDefaultConfiguration ELSE c
    IN  [c0 EXCEPT !.Cmd = IF mode \in OptimizeModes
                           THEN (IF c.nil THEN "OPTIMIZE" ELSE @)
                           ELSE mode,
                   !.ValidationMode = IF mode = "REMOVEPAGES" THEN "Relaxed" ELSE @]

\* The io based function up to its first call of the core.
IoBegin ==
    /\ pc = "Io"
    /\ UNCHANGED <<proc, cmd, ctx, loop, trace, written, fs, open>>
    /\ IF cmd.Mode = "SETPERMISSIONS" /\ conf.nil
       THEN IoReturns("err") /\ UNCHANGED <<conf, todo>>
       ELSE /\ conf' = Configured(cmd.Mode, conf)
            /\ IF \/ cmd.Mode = "VALIDATE" /\ conf'.ValidationMode = "None"
                  \/ cmd.Mode = "ADDWATERMARKS" /\ cmd.arg = "nil"
               THEN IoReturns("err") /\ UNCHANGED todo
               ELSE IF cmd.Mode = "MERGE" /\ cmd.nIn = 0
               THEN \* rsc[0]: index out of range
                    IoPanics /\ UNCHANGED todo
               ELSE /\ todo' = Program(cmd.Mode, conf'.ValidationMode, conf'.Stats,
                                       cmd.arg, hasF1, cmd.nIn, cmd.nImg)
                    /\ pc' = "Stage"
                    /\ UNCHANGED <<ret, panicking>>

Outcomes == {"ok", "err", "panic"}

At(k) == pc = "Stage" /\ todo # <<>> /\ Head(todo).k = k

\* A step whose error is not checked: the function goes on.
OutcomeUnchecked(r, pop) ==
    IF r = "panic"
    THEN todo' = todo /\ IoPanics
    ELSE LET rest == IF pop THEN Tail(todo) ELSE todo
         IN  /\ todo' = rest
             /\ UNCHANGED panicking
             /\ IF rest = <<>>
                THEN pc' = AfterIo /\ ret' = [ret EXCEPT !.io = "nil"]
                ELSE pc' = "Stage" /\ UNCHANGED ret

\* What follows a step that ended with r: on an error the function returns
\* it, after its last step it returns nil.  pop: the stage is finished.
Outcome(r, pop) ==
    CASE r = "ok" ->
            LET rest == IF pop THEN Tail(todo) ELSE todo
            IN  /\ todo' = rest
                /\ UNCHANGED panicking
                /\ IF rest = <<>>
                   THEN pc' = AfterIo /\ ret' = [ret EXCEPT !.io = "nil"]
                   ELSE pc' = "Stage" /\ UNCHANGED ret
      [] r = "err" -> todo' = todo /\ IoReturns("err")
      [] r = "panic" -> todo' = todo /\ IoPanics

\* A call of stage kind k for the context at the head of todo ended with r.
Call(k, r, pop) ==
    /\ trace' = Append(trace, [k |-> k, c |-> Head(todo).c, r |-> r,
                                m |-> conf.ValidationMode])
    /\ Outcome(r, pop)

\* The number of pages of input k: input k of a merge has k - 1 pages more
\* than the first one.
PagesOf(k) == IF cmd.Mode = "MERGE" THEN cmd.pages + k - 1 ELSE cmd.pages

\* The file a context is read from.
SourceFile(c) ==
    IF cmd.Mode = "IMPORTIMAGES" THEN cmd.outFile ELSE InName(c)

\* ReadContext: pdf.Read.  A file that os.Create has just truncated holds no PDF.
ReadContext ==
    /\ At("read")
    /\ \E r \in (IF fs[SourceFile(Head(todo).c)] = "empty" THEN {"err"} ELSE Outcomes) :
         /\ Call("read", r, TRUE)
         /\ ctx' = IF r = "ok" /\ Head(todo).c = Dest
                   THEN [ctx EXCEPT !.pages = PagesOf(Dest), !.seq = <<Dest>>,
                                    !.PageCount = 0]
                   ELSE ctx
    /\ UNCHANGED <<proc, cmd, conf, loop, written, fs, open>>

\* ValidateContext: validate.XRefTable, which sets ctx.PageCount.
ValidateContext ==
    /\ At("validate")
    /\ \E r \in Outcomes :
         /\ Call("validate", r, TRUE)
         /\ ctx' = IF r = "ok" /\ Head(todo).c = Dest
                   THEN [ctx EXCEPT !.PageCount = ctx.pages] ELSE ctx
    /\ UNCHANGED <<proc, cmd, conf, loop, written, fs, open>>

\* OptimizeContext: pdf.OptimizeXRefTable.
OptimizeContext ==
    /\ At("optimize")
    /\ \E r \in Outcomes : Call("optimize", r, TRUE)
    /\ UNCHANGED <<proc, cmd, conf, ctx, loop, written, fs, open>>

\* pagesForPageSelection(ctx.PageCount, selectedPages, ...): the selection
\* resolves to some of the pages 1..ctx.PageCount, or is rejected.
PagesForPageSelection ==
    /\ At("select")
    /\ \E r \in Outcomes :
         /\ Call("select", r, TRUE)
         /\ IF r = "ok"
            THEN \E pages \in SUBSET (1..ctx.PageCount) :
                    ctx' = [ctx EXCEPT !.SelectedPages = pages]
            ELSE UNCHANGED ctx
    /\ UNCHANGED <<proc, cmd, conf, loop, written, fs, open>>

\* pdf.RotatePages, pdf.AddWatermarks, pdf.NUpFromPDF, ctx.InsertPages.
Transform ==
    /\ At("transform")
    /\ \E r \in Outcomes : Call("transform", r, TRUE)
    /\ UNCHANGED <<proc, cmd, conf, ctx, loop, written, fs, open>>

CheckRemoveGreater ==
    /\ At("check")
    /\ Call("check", IF Cardinality(ctx.SelectedPages) > ctx.PageCount
                      THEN "err" ELSE "ok", TRUE)
    /\ UNCHANGED <<proc, cmd, conf, ctx, loop, written, fs, open>>

\* RemovePages: if len(pages) >= ctx.PageCount { return "operation invalid" }
CheckRemove ==
    /\ At("check")
    /\ Call("check", IF Cardinality(ctx.SelectedPages) >= ctx.PageCount
                      THEN "err" ELSE "ok", TRUE)
    /\ UNCHANGED <<proc, cmd, conf, ctx, loop, written, fs, open>>

\* The file behind the io.Writer the file based function passes.
WriteTarget ==
    CASE cmd.Mode \in TmpModes -> tmpFile
      [] cmd.Mode \in {"NUP", "MERGE"} -> cmd.outFile
      [] cmd.Mode = "IMPORTIMAGES" -> importTmp

\* The pages of ctx that pdf.Write writes: all but ctx.Write.SelectedPages
\* for REMOVEPAGES, ctx.Write.SelectedPages for TRIM, and every page of
\* the context otherwise.
WrittenPages ==
    CASE conf.Cmd = "REMOVEPAGES" -> (1..ctx.pages) \ ctx.SelectedPages
      [] conf.Cmd = "TRIM" /\ ctx.SelectedPages # {} -> ctx.SelectedPages
      [] OTHER -> 1..ctx.pages

\* WriteContext: pdf.Write to w.
WriteContext ==
    /\ At("write")
    /\ \E r \in Outcomes :
         /\ Call("write", r, TRUE)
         /\ fs' = [fs EXCEPT ![WriteTarget] = IF r = "ok" THEN "new" ELSE "partial"]
         /\ ctx' = IF r = "ok" THEN [ctx EXCEPT !.w = WrittenPages] ELSE ctx
    /\ UNCHANGED <<proc, cmd, conf, loop, written, open>>

\* writeSpan(ctx, from, thru, ...) ended with r; last: no span follows.
writeSpan(from, thru, r, last) ==
    /\ Call("write", r, last)
    /\ written' = IF r = "ok" THEN Append(written, <<from, thru>>) ELSE written
    /\ loop' = loop + 1

\* writePDFSequence's loop: for i := 0; i < ctx.PageCount/span; i++
loopFrom(i, span) == i * span + 1
loopThru(i, span) == i * span + span

\* writePDFSequence after the loop: if ctx.PageCount%span > 0
lastFrom(PageCount, span) == GoDiv(PageCount, span) * span + 1
lastThruFullSpan(PageCount, span) == GoDiv(PageCount, span) * span + span
lastThru(PageCount, span) == GoDiv(PageCount, span) * span + GoMod(PageCount, span)

\* writePDFSequence, one writeSpan at a time.
writePDFSequence ==
    /\ At("split")
    /\ UNCHANGED <<proc, cmd, conf, ctx, fs, open>>
    /\ IF cmd.span = 0
       THEN \* ctx.PageCount/span: integer divide by zero
            Outcome("panic", TRUE) /\ UNCHANGED <<trace, written, loop>>
       ELSE IF loop < GoDiv(ctx.PageCount, cmd.span)
       THEN \E r \in Outcomes :
              writeSpan(loopFrom(loop, cmd.span), loopThru(loop, cmd.span), r, FALSE)
       ELSE IF GoMod(ctx.PageCount, cmd.span) > 0
       THEN \E r \in Outcomes :
              writeSpan(lastFrom(ctx.PageCount, cmd.span),
                        lastThru(ctx.PageCount, cmd.span), r, TRUE)
       ELSE Outcome("ok", TRUE) /\ UNCHANGED <<trace, written, loop>>

\* Optimize: pdf.AppendStatsFile when a stats file is configured.
AppendStatsFile ==
    /\ At("stats")
    /\ \E r \in Outcomes : Call("stats", r, TRUE)
    /\ UNCHANGED <<proc, cmd, conf, ctx, loop, written, fs, open>>

\* pdf.NUpFromImage, pdf.CreateContextWithXRefTable: a context without pages.
CreateContext ==
    /\ At("create")
    /\ \E r \in Outcomes :
         /\ Call("create", r, TRUE)
         /\ ctx' = IF r = "ok" THEN [ctx EXCEPT !.pages = 0, !.PageCount = 0] ELSE ctx
    /\ UNCHANGED <<proc, cmd, conf, loop, written, fs, open>>

\* ImportImages: ctx.Pages() and ctx.DereferenceDict.
PagesRoot ==
    /\ At("pages")
    /\ \E r \in Outcomes : Call("pages", r, TRUE)
    /\ UNCHANGED <<proc, cmd, conf, ctx, loop, written, fs, open>>

\* ImportImages: pdf.NewPageForImage, pdf.AppendPageTree, ctx.PageCount++.
NewPageForImage ==
    /\ At("newpage")
    /\ \E r \in Outcomes :
         /\ Call("newpage", r, TRUE)
         /\ ctx' = IF r = "ok"
                   THEN [ctx EXCEPT !.pages = @ + 1, !.PageCount = @ + 1] ELSE ctx
    /\ UNCHANGED <<proc, cmd, conf, loop, written, fs, open>>

\* appendTo: pdf.MergeXRefTables(ctxSource, ctxDest) appends the pages of
\* the source to the page tree of ctxDest; seq lists the inputs whose pages
\* the context holds, in page order.
MergeXRefTables ==
    /\ At("merge")
    /\ \E r \in Outcomes :
         /\ Call("merge", r, TRUE)
         /\ ctx' = IF r = "ok"
                   THEN [ctx EXCEPT !.pages = @ + PagesOf(Head(todo).c),
                                    !.seq = Append(@, Head(todo).c)]
                   ELSE ctx
    /\ UNCHANGED <<proc, cmd, conf, loop, written, fs, open>>


\* ------------------------------------------- the deferred functions, return
\* The error the deferred function sees in the named result err: the io based
\* function's result, or nil when a panic is unwinding (the return statement
\* never assigned it).
deferredErr == IF panicking = "yes" THEN "nil" ELSE ret.io

\* The file based function is left with result e, or by the panic.
Leave(e) ==
    /\ pc' = AfterFile
    /\ IF panicking = "yes"
       THEN panicking' = Unwind("yes") /\ UNCHANGED ret
       ELSE ret' = [ret EXCEPT !.file = e] /\ UNCHANGED panicking

\* The deferred function of OptimizeFile, SetPermissionsFile, TrimFile,
\* RotateFile, AddWatermarksFile, InsertPagesFile, RemovePagesFile.
\* os.File.Close releases the handle also when it reports an error.
TmpFileDeferred ==
    /\ pc = "Deferred"
    /\ cmd.Mode \in TmpModes
    /\ UNCHANGED <<proc, cmd, conf, todo, ctx, loop, trace, written>>
    /\ IF deferredErr = "err"
       THEN /\ open' = open \ {F1, F2}
            /\ fs' = IF InPlace THEN [fs EXCEPT ![tmpFile] = "absent"] ELSE fs
            /\ Leave("err")
       ELSE \E f2Closed, f1Closed, renamed \in BOOLEAN :
              IF ~f2Closed
              THEN open' = open \ {F2} /\ UNCHANGED fs /\ Leave("err")
              ELSE IF ~f1Closed
              THEN open' = open \ {F1, F2} /\ UNCHANGED fs /\ Leave("err")
              ELSE /\ open' = open \ {F1, F2}
                   /\ IF ~InPlace
                      THEN UNCHANGED fs /\ Leave("nil")
                      ELSE IF renamed
                      THEN /\ fs' = [fs EXCEPT ![inFile] = fs[tmpFile], ![tmpFile] = "absent"]
                           /\ Leave("nil")
                      ELSE UNCHANGED fs /\ Leave("err")

\* ValidateFile: defer f.Close(); SplitFile: defer func() { f.Close() }().
CloseDeferred ==
    /\ pc = "Deferred"
    /\ cmd.Mode \in {"VALIDATE", "SPLIT"}
    /\ open' = open \ {F1}
    /\ Leave(ret.io)
    /\ UNCHANGED <<proc, cmd, conf, todo, ctx, loop, trace, written, fs>>

\* The deferred function of NUpFile.
NUpFileDeferred ==
    /\ pc = "Deferred"
    /\ cmd.Mode = "NUP"
    /\ UNCHANGED <<proc, cmd, conf, todo, ctx, loop, trace, written, fs>>
    /\ IF deferredErr = "err"
       THEN open' = open \ {F1, F2} /\ Leave("err")
       ELSE \E f1Closed, f2Closed \in BOOLEAN :
              IF F1 \in open /\ ~f1Closed
              THEN open' = open \ {F1} /\ Leave("err")
              ELSE /\ open' = open \ {F1, F2}
                   /\ Leave(IF f2Closed THEN "nil" ELSE "err")

\* The deferred function of ImportImagesFile.  On the error path the loop
\* assigns each rc Close's result to err.
ImportImagesFileDeferred ==
    /\ pc = "Deferred"
    /\ cmd.Mode = "IMPORTIMAGES"
    /\ UNCHANGED <<proc, cmd, conf, todo, ctx, loop, trace, written>>
    /\ IF deferredErr = "err"
       THEN /\ fs' = IF hasF1 THEN [fs EXCEPT ![importTmp] = "absent"] ELSE fs
            /\ \E failing \in 0..cmd.nImg :
                 \* rc[failing].Close() is the first to fail, 0: none fails
                 /\ open' = open \ ({F1, F2} \cup
                       {H("rc", j) : j \in 1..(IF failing = 0 THEN cmd.nImg ELSE failing)})
                 /\ Leave(IF failing > 0 THEN "err"
                          ELSE IF cmd.nImg > 0 THEN "nil" ELSE "err")
       ELSE \E f2Closed, f1Closed, renamed \in BOOLEAN :
              IF ~f2Closed
              THEN open' = open \ {F2} /\ UNCHANGED fs /\ Leave("err")
              ELSE IF ~hasF1
              THEN open' = open \ {F2} /\ UNCHANGED fs /\ Leave("nil")
              ELSE /\ open' = open \ {F1, F2}
                   /\ IF ~f1Closed
                      THEN UNCHANGED fs /\ Leave("err")
                      ELSE IF renamed
                      THEN /\ fs' = [fs EXCEPT ![cmd.outFile] = fs[importTmp],
                                               ![importTmp] = "absent"]
                           /\ Leave("nil")
                      ELSE UNCHANGED fs /\ Leave("err")

\* The deferred function of MergeFile.
MergeFileDeferred ==
    /\ pc = "Deferred"
    /\ cmd.Mode = "MERGE"
    /\ open' = open \ ({F2} \cup {H("ff", j) : j \in 1..cmd.nIn})
    /\ Leave(ret.io)
    /\ UNCHANGED <<proc, cmd, conf, todo, ctx, loop, trace, written, fs>>

\* ------------------------------------------------------ the specification
Next ==
    \/ Process
    \/ ProcessReturn
    \/ TmpFileBegin
    \/ ValidateFileBegin
    \/ SplitFileBegin
    \/ NUpFileBegin
    \/ ImportImagesFileBegin
    \/ MergeFileBegin
    \/ IoBegin
    \/ ReadContext
    \/ ValidateContext
    \/ OptimizeContext
    \/ PagesForPageSelection
    \/ Transform
    \/ CheckRemove
    \/ WriteContext
    \/ writePDFSequence
    \/ AppendStatsFile
    \/ CreateContext
    \/ PagesRoot
    \/ NewPageForImage
    \/ MergeXRefTables
    \/ TmpFileDeferred
    \/ CloseDeferred
    \/ NUpFileDeferred
    \/ ImportImagesFileDeferred
    \/ MergeFileDeferred

Spec == Init /\ [][Next]_vars


\* ================================================================= claims
Min(a, b) == IF a < b THEN a ELSE b
Ceil(a, b) == (a + b - 1) \div b
Range(r) == r[1]..r[2]
IoReturned == ret.io # "-"

\* The ranges the specification of Split asks for: [1..s], [s+1..2s], ...
SplitRanges(P, s) == [i \in 1..Ceil(P, s) |-> <<(i - 1) * s + 1, Min(i * s, P)>>]

IsPrefix(a, b) == Len(a) <= Len(b) /\ \A i \in 1..Len(a) : a[i] = b[i]

SplitWith(P, s) == cmd.Mode = "SPLIT" /\ cmd.span = s /\ ctx.PageCount = P

\* C1: for a document of P >= 1 pages and a span s >= 1, Split writes exactly
\* the ranges [1..s], [s+1..2s], ... in increasing order: they are pairwise
\* disjoint, their union is 1..P, each holds s pages but the last, which holds
\* P mod s pages when s does not divide P, and ceil(P/s) files are written.
C1_SplitRanges ==
    (cmd.Mode = "SPLIT" /\ cmd.span >= 1 /\ ctx.PageCount >= 1) =>
        LET P == ctx.PageCount
            s == cmd.span
            n == Len(written)
        IN  /\ IsPrefix(written, SplitRanges(P, s))
            /\ \A i, j \in 1..n : i < j => Range(written[i]) \cap Range(written[j]) = {}
            /\ \A i \in 1..n : i < Ceil(P, s) => Cardinality(Range(written[i])) = s
            /\ ret.io = "nil" =>
                 /\ n = Ceil(P, s)
                 /\ UNION {Range(written[i]) : i \in 1..n} = 1..P
                 /\ P % s # 0 => Cardinality(Range(written[n])) = P % s

\* C1 witness: the 7 pages of the specification's example, split with span 3.
C1_Witness ==
    /\ SplitWith(7, 3)
    /\ ret.io = "nil"
    /\ written = <<<<1, 3>>, <<4, 6>>, <<7, 7>>>>

\* C2: Split with a span smaller than 1 fails with an error value and writes
\* no page range.
C2_InvalidSpan ==
    (cmd.Mode = "SPLIT" /\ cmd.span < 1) =>
        /\ written = <<>>
        /\ panicking = "no"
        /\ IoReturned => ret.io = "err"

\* C2 witness: Split(span = -3) of 7 pages returned nil after writing page 7.
C2_Witness ==
    /\ SplitWith(7, -3)
    /\ ret.io = "nil"
    /\ written = <<<<7, 7>>>>

\* C2, second case: Split(span = 0) panics with a division by zero.
C2_WitnessZero ==
    /\ SplitWith(1, 0)
    /\ panicking # "no"
    /\ trace[Len(trace)].k = "optimize"


\* ---------------------------------------------------------------- C3, C4
Kinds(k) == {i \in 1..Len(trace) : trace[i].k = k}
KindsOf(k, c) == {i \in Kinds(k) : trace[i].c = c}
Contexts == {trace[i].c : i \in 1..Len(trace)}
\* Every call but the last one returned without error.
EachAfterOk == \A i \in 1..(Len(trace) - 1) : trace[i].r = "ok"
Before(k, j) == \E i \in Kinds(k) : i < j
Validating == conf.ValidationMode # "None"

WritingModes == cmdMap \ {"VALIDATE"}
Revalidating == {"ROTATE", "ADDWATERMARKS", "INSERTPAGES", "MERGE"}
Unoptimized == {"NUP", "IMPORTIMAGES"}

\* The specification's statement of C3: the pipeline is strictly read,
\* validate, optimize, write: each stage starts after the previous returned
\* without error, no context is validated after it was optimized, and no
\* context is written that was not optimized.
C3_StrictOrder ==
    cmd.Mode \in WritingModes =>
        /\ EachAfterOk
        /\ \A c \in Contexts : \A i \in KindsOf("optimize", c), j \in KindsOf("validate", c) :
               j < i
        /\ \A j \in Kinds("write") : \E i \in KindsOf("optimize", trace[j].c) : i < j

\* C3 (amended): each call starts after the previous returned without error;
\* a context is first read (or created), with validation on it is validated
\* right after it was read, it is optimized only after that, and nothing
\* follows a write but further writes of Split and Optimize's stats.  Optimize,
\* SetPermissions, Split, Trim and RemovePages write an optimized context that
\* was not validated again; Rotate, AddWatermarks, InsertPages and Merge
\* validate once more between optimization and write; NUp and ImportImages
\* never optimize.
C3_StageOrder ==
    cmd.Mode \in WritingModes =>
        /\ EachAfterOk
        /\ \A c \in Contexts : \A j \in 1..Len(trace) :
               trace[j].c = c =>
                  \E i \in KindsOf("read", c) \cup KindsOf("create", c) :
                      i <= j /\ (i < j => trace[i].r = "ok")
        /\ \A i \in Kinds("read") :
               (Validating /\ i < Len(trace)) =>
                  trace[i + 1].k = "validate" /\ trace[i + 1].c = trace[i].c
        /\ \A i \in Kinds("write") : \A j \in (i + 1)..Len(trace) :
               trace[j].k \in {"write", "stats"}
        /\ \A j \in Kinds("write") :
               /\ cmd.Mode \notin Unoptimized =>
                     \E i \in KindsOf("optimize", Dest) : i < j
               /\ (cmd.Mode \in Revalidating /\ Validating) =>
                     \E i \in KindsOf("optimize", Dest), v \in KindsOf("validate", Dest) :
                         i < v /\ v < j
        /\ cmd.Mode \notin Revalidating =>
               \A i \in Kinds("optimize") : \A v \in KindsOf("validate", trace[i].c) : v < i
        /\ cmd.Mode \in Unoptimized => Kinds("optimize") = {}

\* C3 witness: Rotate wrote after read, validate, optimize and a second validate.
C3_Witness ==
    /\ cmd.Mode = "ROTATE"
    /\ ret.io = "nil"
    /\ [i \in 1..Len(trace) |-> trace[i].k] =
          <<"read", "validate", "optimize", "select", "transform", "validate", "write">>

\* The second divergence: NUp writes a context that was never optimized.
C3_WitnessNUp ==
    /\ cmd.Mode = "NUP"
    /\ ret.io = "nil"
    /\ Kinds("write") # {} /\ Kinds("optimize") = {}

\* C4: pdf.Write is invoked, and a byte reaches a file, only after reading,
\* validation (unless ValidationNone), optimization and the page selection or
\* transformation of the operation returned without error; a read or
\* validation error is what the io based function returns.
C4_NoWriteAfterError ==
    /\ \A j \in Kinds("write") :
          /\ \A i \in 1..(j - 1) : trace[i].r = "ok"
          /\ Before("read", j) \/ Before("create", j)
          /\ Validating => Before("validate", j)
          /\ cmd.Mode \notin Unoptimized => Before("optimize", j)
          /\ cmd.Mode \in {"TRIM", "ROTATE", "ADDWATERMARKS", "INSERTPAGES", "REMOVEPAGES"}
                => Before("select", j)
          /\ cmd.Mode \in {"ROTATE", "ADDWATERMARKS", "INSERTPAGES"} => Before("transform", j)
          /\ cmd.Mode = "NUP" => Before("transform", j) \/ Before("create", j)
    /\ (\E f \in Names : fs[f] \in {"new", "partial"}) => Kinds("write") # {}
    /\ \A i \in Kinds("read") \cup Kinds("validate") :
          (trace[i].r = "err" /\ pc \notin {"Stage", "Io"}) =>
              ret.io = "err" /\ Kinds("write") = {}

\* C4 witness: Trim's validation failed, Trim returned the error, no write.
C4_Witness ==
    /\ cmd.Mode = "TRIM"
    /\ Len(trace) = 2 /\ trace[2].k = "validate" /\ trace[2].r = "err"
    /\ ret.io = "err"
    /\ pc = "Done"
    /\ \A f \in Names : fs[f] \notin {"new", "partial"}


\* ------------------------------------------------------------ C5, C6, C7
\* The file based function was left, by a return or by a panic.
FileLeft == pc \in {"ProcessRet", "Done"} /\ cmd.entry # "io"
FileReturned(e) == FileLeft /\ ret.file = e
\* The io based function returned the error of its read or validate call.
ReadOrValidateFailed ==
    /\ trace # <<>>
    /\ trace[Len(trace)].k \in {"read", "validate"}
    /\ trace[Len(trace)].r = "err"
    /\ ret.io = "err"

\* C5: a file based operation with an outFile other than inFile that fails
\* because reading or validating the input fails leaves no new outFile behind
\* and leaves an outFile that existed with its content.
C5_NoPartialOutFile ==
    ( /\ cmd.Mode \in {"OPTIMIZE", "TRIM", "ROTATE", "INSERTPAGES", "REMOVEPAGES", "MERGE", "NUP"}
      /\ cmd.outFile = OutName
      /\ FileReturned("err")
      /\ ReadOrValidateFailed )
    => fs[OutName] = cmd.fs0[OutName]

\* C5 witness: OptimizeFile("in.pdf", "out.pdf") returned Optimize's validation
\* error and out.pdf, which held a document, is empty.
C5_Witness ==
    /\ cmd.Mode = "OPTIMIZE" /\ cmd.outFile = OutName
    /\ FileReturned("err") /\ ReadOrValidateFailed
    /\ cmd.fs0[OutName] = "orig" /\ fs[OutName] = "empty"

\* C6: a file based operation run in place that returns an error leaves
\* inFile unchanged and no inFile.tmp.
C6_InPlaceErrorRestores ==
    (cmd.Mode \in TmpModes /\ InPlace /\ FileReturned("err")) =>
        /\ fs[inFile] = cmd.fs0[inFile]
        /\ fs[Tmp(inFile)] = "absent"

\* C6 witness: SetPermissionsFile("in.pdf", "") returned an error after
\* SetPermissions had written: in.pdf.tmp holds the new document.
C6_Witness ==
    /\ cmd.Mode = "SETPERMISSIONS" /\ cmd.outFile = ""
    /\ FileReturned("err") /\ ret.io = "nil"
    /\ fs[inFile] = "orig" /\ fs[Tmp(inFile)] = "new"

\* C7: every file handle a file based operation opened is closed when the
\* operation is left, on every exit path.
C7_HandlesClosed == FileLeft => open = {}

\* C7 witness: OptimizeFile returned os.Create's error with f1 open.
C7_Witness ==
    /\ cmd.Mode = "OPTIMIZE"
    /\ FileReturned("err") /\ trace = <<>>
    /\ open = {F1}

\* C7, on success: ImportImagesFile returned nil with an image file open.
C7_WitnessImport ==
    /\ cmd.Mode = "IMPORTIMAGES"
    /\ FileReturned("nil")
    /\ H("rc", 1) \in open

\* --------------------------------------------------------------------- C8
\* C8: Process lets no panic escape: when the command function panicked,
\* Process returns an error; for a mode cmdMap does not hold it returns an
\* error and no command function has run.
C8_ProcessRecovers ==
    cmd.entry = "cli" =>
        /\ panicking # "escaped"
        /\ pc = "Done" =>
              /\ panicking \in {"no", "recovered"}
              /\ ret.cli \in {"nil", "err"}
              /\ panicking = "recovered" => ret.cli = "err"
              /\ cmd.Mode \notin cmdMap =>
                    /\ ret.cli = "err"
                    /\ ret.file = "-" /\ ret.io = "-" /\ trace = <<>>
                    /\ open = {} /\ fs = cmd.fs0

\* C8 witness: pdf.Write panicked under Optimize, Process returned an error.
C8_Witness ==
    /\ cmd.entry = "cli" /\ cmd.Mode = "OPTIMIZE"
    /\ pc = "Done"
    /\ trace # <<>> /\ trace[Len(trace)].k = "write" /\ trace[Len(trace)].r = "panic"
    /\ panicking = "recovered" /\ ret.cli = "err"

\* C8, second case: a mode that cmdMap does not hold.
C8_WitnessUnknown ==
    /\ cmd.entry = "cli" /\ cmd.Mode = "UNKNOWN"
    /\ pc = "Done" /\ ret.cli = "err"


\* ======================================================= CommandMap.Handle
\* The variables of the api stack, which the command line layer leaves alone.
stack == <<cmd, conf, pc, todo, ctx, loop, trace, written, fs, open, ret, panicking>>

IdleStack ==
    /\ cmd = [entry |-> "-", Mode |-> "-", confNil |-> FALSE,
              ValidationMode |-> "-", span |-> 1, pages |-> 1,
              arg |-> "-", nIn |-> 0, nImg |-> 0, outFile |-> "",
              fs0 |-> InitialFs(0, 0, 0, FALSE)]
    /\ conf = NewDefaultConfiguration
    /\ pc = "-"
    /\ todo = <<>>
    /\ ctx = NoCtx
    /\ loop = 0
    /\ trace = <<>>
    /\ written = <<>>
    /\ fs = InitialFs(0, 0, 0, FALSE)
    /\ open = {}
    /\ ret = NoRet
    /\ panicking = "no"

\* Command names and prefixes are sequences of letters.
Letters == {"a", "b"}
CmdNames == {<<x>> : x \in Letters} \cup {<<x, y>> : x, y \in Letters}
Prefixes == {<<>>, <<"a", "a", "b">>} \cup CmdNames
SubNames == {<<"a">>, <<"a", "b">>}
SubArgs == {<<>>, <<"a">>, <<"a", "b">>, <<"b">>}

\* strings.HasPrefix(cmdPrefix, k): the arguments the wrong way round.
HasPrefixSwapped(k, prefix) ==
    Len(k) <= Len(prefix) /\ SubSeq(prefix, 1, Len(k)) = k
\* strings.HasPrefix(k, cmdPrefix)
HasPrefix(k, prefix) ==
    Len(prefix) <= Len(k) /\ SubSeq(k, 1, Len(prefix)) = prefix

\* The frame of m.Handle(cmdPrefix, ...): the keys range has yet to yield.
Frame(level, m, cmdPrefix) ==
    [level |-> level, m |-> m, cmdPrefix |-> cmdPrefix, pending |-> m, cmdStr |-> <<>>]

\* pdfcpu is started: the command map holds at most MaxCmds commands, at most
\* one of them without a handler and with sub commands instead; Args are
\* os.Args[1:].
InitHandle ==
    /\ IdleStack
    /\ \E m \in SUBSET CmdNames, sub \in SUBSET SubNames :
       \E noHandler \in m \cup {<<>>}, arg1 \in Prefixes, rest \in {<<>>} \cup {<<a>> : a \in SubArgs} :
          /\ Cardinality(m) <= MaxCmds
          /\ noHandler = <<>> => sub = {}
          /\ proc = [at |-> "range", Args |-> <<arg1>> \o rest,
                     cmdMap |-> m, noHandler |-> noHandler, sub |-> sub,
                     frame |-> Frame(1, m, arg1),
                     err |-> "-", ran |-> <<>>, exit |-> "-"]

HandleReturns(e) == proc' = [proc EXCEPT !.at = "done", !.err = e]

\* for k := range m, one iteration; range yields the keys in any order.
HandleRange ==
    /\ proc.at = "range"
    /\ UNCHANGED stack
    /\ \E k \in proc.frame.pending :
         IF ~HasPrefix(k, proc.frame.cmdPrefix)
         THEN proc' = [proc EXCEPT !.frame.pending = @ \ {k}]
         ELSE IF Len(proc.frame.cmdStr) > 0
         THEN HandleReturns("errAmbiguousCmd")
         ELSE proc' = [proc EXCEPT !.frame.pending = @ \ {k}, !.frame.cmdStr = k]

\* Handle after the loop.
HandleCommand ==
    /\ proc.at = "range"
    /\ proc.frame.pending = {}
    /\ UNCHANGED stack
    /\ LET f == proc.frame
       IN  IF f.cmdStr = <<>>
           THEN HandleReturns("errUnknownCmd")
           ELSE IF ~(f.level = 1 /\ f.cmdStr = proc.noHandler)
           THEN \* m[cmdStr].handler(conf); return command, nil
                proc' = [proc EXCEPT !.at = "done", !.err = "nil",
                                     !.ran = Append(@, [level |-> f.level, k |-> f.cmdStr])]
           ELSE IF Len(proc.Args) + 1 = 2
           THEN \* os.Exit(1) after the short usage
                proc' = [proc EXCEPT !.at = "exited", !.exit = 1]
           ELSE proc' = [proc EXCEPT !.frame = Frame(2, proc.sub, proc.Args[2])]

NextHandle == HandleRange \/ HandleCommand

SpecHandle == InitHandle /\ [][NextHandle]_vars

\* ================================================= the command handlers
\* A handler is entered with flag.Args() and the flags parsed: nargs is
\* len(flag.Args()), pdf[i] tells whether flag.Arg(i-1) has the extension
\* .pdf, num is what strconv.Atoi makes of the numeric argument, selectedPages is "bad" when api.ParsePageSelection rejects selectedPages.
None4 == <<"n", "o", "n", "e">>
All3 == <<"a", "l", "l">>

Handlers == {"help", "version", "validate", "optimize", "split", "merge", "trim",
             "setperm", "encrypt", "rotate"}
Flags(h) ==
    [selectedPages : IF h \in {"trim", "rotate"} THEN {"", "1-2", "bad"} ELSE {"", "1-2"},
     mode : CASE h = "validate" -> {"", "strict", "s", "relaxed", "r", "x"}
              [] h = "encrypt" -> {"", "rc4", "aes", "x"}
              [] OTHER -> {""},
     key : IF h = "encrypt" THEN {"", "40", "128", "256", "512"} ELSE {""},
     perm : CASE h = "setperm" -> {<<>>, <<"n">>, None4, <<"a", "l">>, All3, <<"x">>}
              [] h = "encrypt" -> {<<>>, <<"n">>, None4, All3}
              [] OTHER -> {<<>>},
     opw : IF h = "encrypt" THEN {"", "opw"} ELSE {""}]
\* strconv.Atoi's results: (n, nil), or (0, err) for an argument that is no number.
Atoi(ns) == {[n |-> 0, err |-> TRUE]} \cup {[n |-> n, err |-> FALSE] : n \in ns}
Nums(h) ==
    CASE h = "split" -> Atoi((-1)..2)
      [] h = "rotate" -> Atoi({0, 45, -45, 90, -90, 180})
      [] OTHER -> Atoi({})

InitHandlers ==
    /\ IdleStack
    /\ \E h \in Handlers, nargs \in 0..MaxArgs :
       \E f \in Flags(h), num \in Nums(h), pdf \in [1..MaxArgs -> BOOLEAN] :
          /\ \A i \in 1..MaxArgs : (i > nargs \/ (i > 2 /\ h # "merge")) => ~pdf[i]
          /\ proc = [at |-> "handler", handler |-> h, nargs |-> nargs, flags |-> f,
                     num |-> num, pdf |-> pdf,
                     detected |-> FALSE, exit |-> "-", command |-> "-"]

\* The handler prints a usage or error message and calls os.Exit(1).
Exit1 == proc' = [proc EXCEPT !.at = "exited", !.exit = 1, !.detected = TRUE]
\* The handler returns to CommandMap.Handle.
Returns(detected) == proc' = [proc EXCEPT !.at = "returned", !.detected = detected]
\* process(cli.XCommand(...))
CallProcess(c) == proc' = [proc EXCEPT !.at = "process", !.command = c]
Handling(h) == proc.at = "handler" /\ proc.handler = h /\ UNCHANGED stack

\* ensurePdfExtension(flag.Arg(i-1)) lets the handler go on.
hasPdfExtension(i) == proc.pdf[i]

printHelp ==
    /\ Handling("help")
    /\ CASE proc.nargs = 0 -> Returns(FALSE)
         [] proc.nargs = 1 -> Returns(FALSE)
         [] OTHER -> \* "Too many arguments." is printed, and printHelp returns
                     Returns(TRUE)

printVersion ==
    /\ Handling("version")
    /\ IF proc.nargs # 0 THEN Exit1 ELSE Returns(FALSE)

handleValidateCommand ==
    /\ Handling("validate")
    /\ LET mode == proc.flags.mode
       IN  IF proc.nargs = 0 \/ proc.nargs > 1 \/ proc.flags.selectedPages # ""
           THEN Exit1
           ELSE IF ~hasPdfExtension(1)
           THEN Exit1
           ELSE IF mode \notin {"", "strict", "s", "relaxed", "r"}
           THEN Exit1
           ELSE CallProcess([Mode |-> "VALIDATE",
                             ValidationMode |-> CASE mode \in {"strict", "s"} -> "Strict"
                                                  [] mode \in {"relaxed", "r"} -> "Relaxed"
                                                  [] OTHER -> NewDefaultConfiguration.ValidationMode])

handleOptimizeCommand ==
    /\ Handling("optimize")
    /\ IF proc.nargs = 0 \/ proc.nargs > 2 \/ proc.flags.selectedPages # ""
       THEN Exit1
       ELSE IF ~hasPdfExtension(1)
       THEN Exit1
       ELSE IF proc.nargs = 2 /\ ~hasPdfExtension(2)
       THEN Exit1
       ELSE CallProcess([Mode |-> "OPTIMIZE"])

handleSplitCommand ==
    /\ Handling("split")
    /\ IF proc.nargs < 2 \/ proc.nargs > 3 \/ proc.flags.selectedPages # ""
       THEN Exit1
       ELSE IF ~hasPdfExtension(1)
       THEN Exit1
       ELSE IF proc.nargs = 3 /\ (proc.num.err \/ proc.num.n < 1)
       THEN Exit1
       ELSE CallProcess([Mode |-> "SPLIT", span |-> IF proc.nargs = 3 THEN proc.num.n ELSE 1])

handleMergeCommand ==
    /\ Handling("merge")
    /\ IF proc.nargs < 3 \/ proc.flags.selectedPages # ""
       THEN Exit1
       ELSE IF \E i \in 1..proc.nargs : ~hasPdfExtension(i)
       THEN Exit1
       ELSE CallProcess([Mode |-> "MERGE"])

handleTrimCommand ==
    /\ Handling("trim")
    /\ IF proc.nargs = 0 \/ proc.nargs > 2 \/ proc.flags.selectedPages = ""
       THEN Exit1
       ELSE IF proc.flags.selectedPages = "bad"
       THEN Exit1
       ELSE IF ~hasPdfExtension(1)
       THEN Exit1
       ELSE IF proc.nargs = 2 /\ ~hasPdfExtension(2)
       THEN Exit1
       ELSE CallProcess([Mode |-> "TRIM"])

permCompletion(permPrefix) ==
    LET none == HasPrefix(None4, permPrefix)
        all == HasPrefix(All3, permPrefix)
    IN  IF none /\ all THEN <<>> ELSE IF none THEN None4 ELSE IF all THEN All3 ELSE <<>>

handleSetPermissionsCommand ==
    /\ Handling("setperm")
    /\ LET perm == IF proc.flags.perm # <<>> THEN permCompletion(proc.flags.perm)
                   ELSE proc.flags.perm
       IN  IF proc.nargs # 1 \/ proc.flags.selectedPages # "" \/ ~(perm = None4 \/ perm = All3)
           THEN Exit1
           ELSE IF ~hasPdfExtension(1)
           THEN Exit1
           ELSE CallProcess([Mode |-> "SETPERMISSIONS", perm |-> perm])

\* validateEncryptModeFlag: ok is FALSE where it calls os.Exit(1).
validateEncryptModeFlag(mode, key) ==
    LET m == IF mode = "" THEN "aes" ELSE mode
        k == IF key = "256" /\ m = "rc4" THEN "128" ELSE key
    IN  IF mode \notin {"rc4", "aes", ""}
        THEN [ok |-> FALSE, mode |-> mode, key |-> key]
        ELSE IF m = "rc4" /\ k \notin {"40", "128", ""}
        THEN [ok |-> FALSE, mode |-> m, key |-> k]
        ELSE IF m = "aes" /\ k \notin {"40", "128", "256", ""}
        THEN [ok |-> FALSE, mode |-> m, key |-> k]
        ELSE [ok |-> TRUE, mode |-> m, key |-> k]

validateEncryptFlags(mode, key, perm) ==
    LET v == validateEncryptModeFlag(mode, key)
    IN  IF v.ok /\ perm # None4 /\ perm # All3 /\ perm # <<>>
        THEN [v EXCEPT !.ok = FALSE]
        ELSE v

\* kl, _ := strconv.Atoi(key): 0 for a key that is no number.
keyLength(key) ==
    CASE key = "40" -> 40
      [] key = "128" -> 128
      [] key = "256" -> 256
      [] key = "512" -> 512
      [] OTHER -> 0

handleEncryptCommand ==
    /\ Handling("encrypt")
    /\ LET v == validateEncryptFlags(proc.flags.mode, proc.flags.key, proc.flags.perm)
       IN  IF proc.nargs = 0 \/ proc.nargs > 2
           THEN Exit1
           ELSE IF proc.flags.opw = ""
           THEN Exit1
           ELSE IF ~v.ok
           THEN Exit1
           ELSE IF ~hasPdfExtension(1)
           THEN Exit1
           ELSE IF proc.nargs = 2 /\ ~hasPdfExtension(2)
           THEN Exit1
           ELSE CallProcess([Mode |-> "ENCRYPT", EncryptUsingAES |-> v.mode # "rc4",
                             EncryptKeyLength |-> keyLength(v.key),
                             key |-> v.key, perm |-> proc.flags.perm])

handleRotateCommandNoAbs ==
    /\ Handling("rotate")
    /\ IF proc.nargs < 2
       THEN Exit1
       ELSE IF ~hasPdfExtension(1)
       THEN Exit1
       ELSE IF proc.num.err \/ GoMod(proc.num.n, 90) > 0
       THEN Exit1
       ELSE IF proc.flags.selectedPages = "bad"
       THEN Exit1
       ELSE CallProcess([Mode |-> "ROTATE", rotation |-> proc.num.n])

handleRotateCommand ==
    /\ Handling("rotate")
    /\ IF proc.nargs < 2
       THEN Exit1
       ELSE IF ~hasPdfExtension(1)
       THEN Exit1
       ELSE IF proc.num.err \/ GoMod(Abs(proc.num.n), 90) > 0
       THEN Exit1
       ELSE IF proc.flags.selectedPages = "bad"
       THEN Exit1
       ELSE CallProcess([Mode |-> "ROTATE", rotation |-> proc.num.n])

\* process(cmd): cli.Process(cmd), then os.Exit(1) on an error, os.Exit(0)
\* otherwise.
process ==
    /\ proc.at = "process"
    /\ UNCHANGED stack
    /\ \E code \in {0, 1} : proc' = [proc EXCEPT !.at = "exited", !.exit = code]

NextHandlers ==
    \/ printHelp
    \/ printVersion
    \/ handleValidateCommand
    \/ handleOptimizeCommand
    \/ handleSplitCommand
    \/ handleMergeCommand
    \/ handleTrimCommand
    \/ handleSetPermissionsCommand
    \/ handleEncryptCommand
    \/ handleRotateCommand
    \/ process

SpecHandlers == InitHandlers /\ [][NextHandlers]_vars

\* --------------------------------------------------------------------- C9
\* k starts with p.
StartsWith(k, p) == \E n \in 0..Len(k) : SubSeq(k, 1, n) = p
Completions(m, p) == {k \in m : StartsWith(k, p)}
HandleEnded == proc.at \in {"done", "exited"}

\* What the completion of p among the commands m, all with a handler, at the
\* given level has to end with.
Completed(level, m, p) ==
    LET c == Completions(m, p)
    IN  /\ proc.at = "done"
        /\ proc.exit = "-"
        /\ Cardinality(c) = 1 =>
              proc.err = "nil" /\ \E k \in c : proc.ran = <<[level |-> level, k |-> k]>>
        /\ Cardinality(c) >= 2 => proc.err = "errAmbiguousCmd" /\ proc.ran = <<>>
        /\ c = {} => proc.err = "errUnknownCmd" /\ proc.ran = <<>>

\* The specification's statement of C9: Handle(prefix) runs the handler of k
\* exactly when k is the only registered name starting with prefix, returns
\* errAmbiguousCmd when two or more names do and errUnknownCmd when none does,
\* without running a handler, whatever the iteration order.
C9_Completion ==
    (proc.at # "-" /\ HandleEnded) => Completed(1, proc.cmdMap, proc.Args[1])

\* C9 (amended): as stated when the only completion k has a handler or there
\* is not exactly one completion.  When k has no handler but sub commands,
\* Handle exits with code 1 if os.Args holds two elements, and otherwise the
\* result is that of completing os.Args[2] among k's sub commands.
C9_CompletionWithSubCommands ==
    (proc.at # "-" /\ HandleEnded) =>
        IF Completions(proc.cmdMap, proc.Args[1]) # {proc.noHandler}
        THEN Completed(1, proc.cmdMap, proc.Args[1])
        ELSE IF Len(proc.Args) = 1
        THEN proc.at = "exited" /\ proc.exit = 1 /\ proc.ran = <<>> /\ proc.err = "-"
        ELSE Completed(2, proc.sub, proc.Args[2])

\* C9 witness: "a" completes to "ab", the only one of three commands that
\* starts with it, and its handler has run.
C9_Witness ==
    /\ proc.at = "done"
    /\ proc.Args[1] = <<"a">>
    /\ proc.cmdMap = {<<"a", "b">>, <<"b">>, <<"b", "a">>}
    /\ proc.noHandler = <<>>
    /\ proc.ran = <<[level |-> 1, k |-> <<"a", "b">>]>>
    /\ proc.err = "nil"

\* The case the statement leaves out: the only completion has sub commands
\* and os.Args ends after it.
C9_WitnessNoHandler ==
    /\ proc.at = "exited"
    /\ Completions(proc.cmdMap, proc.Args[1]) = {proc.noHandler}
    /\ proc.ran = <<>>

\* Two completions: errAmbiguousCmd.
C9_WitnessAmbiguous ==
    /\ proc.at = "done"
    /\ Cardinality(Completions(proc.cmdMap, proc.Args[1])) = 3
    /\ proc.err = "errAmbiguousCmd"


\* -------------------------------------------------------------------- C10
\* C10: every usage failure a command handler detects ends the process with
\* exit code 1, and no command is processed.
C10_UsageFailureExits ==
    (proc.at \notin {"-", "handler"} /\ proc.detected) =>
        proc.at = "exited" /\ proc.exit = 1 /\ proc.command = "-"

\* C10 witness: pdfcpu help a b: printHelp has printed "Too many arguments."
\* and returned.
C10_Witness ==
    /\ proc.at = "returned"
    /\ proc.handler = "help" /\ proc.nargs = 2
    /\ proc.detected
    /\ proc.exit = "-"


\* ===================================================================
\* validate: the document info object (validateDocumentInfoObject).
\* proc holds the xRefTable fields the validation reads and the position
\* of the validation; the api stack is idle.

\* The string values with date syntax.
DateStrings == {"D:20180101120000Z"}
\* A PDF object is a record: its type t and its value v. The objects of the
\* model are names, booleans, string literals with and without date syntax,
\* and an integer. Null is left out: an entry whose value is null is an
\* absent entry.
Objects ==
    {[t |-> "name", v |-> s] :
        s \in {"True", "False", "Unknown", "true", "false", "unknown", "TRUE", "Yes"}}
    \cup {[t |-> "bool", v |-> s] : s \in {"true", "false"}}
    \cup {[t |-> "string", v |-> s] : s \in DateStrings \cup {"yesterday"}}
    \cup {[t |-> "int", v |-> "1"]}

\* xRefTable.ValidateVersion: the version gate, which Strict enforces.
ValidateVersion(x, sinceVersion) ==
    IF x.ValidationMode = "Strict" /\ x.Version < sinceVersion THEN "version" ELSE "nil"

\* xRefTable.DereferenceName(o, sinceVersion, validate): validate is the set
\* of values the closure accepts.
DereferenceName(x, o, sinceVersion, validate) ==
    IF o.t # "name" THEN "wrong type"
    ELSE IF ValidateVersion(x, sinceVersion) # "nil" THEN "version"
    ELSE IF o.v \notin validate THEN "invalid"
    ELSE "nil"

DereferenceBoolean(x, o, sinceVersion) ==
    IF o.t # "bool" THEN "wrong type" ELSE ValidateVersion(x, sinceVersion)

DereferenceStringOrHexLiteral(x, o, sinceVersion) ==
    IF o.t # "string" THEN "wrong type" ELSE ValidateVersion(x, sinceVersion)

validateString(x, o) == IF o.t # "string" THEN "wrong type" ELSE "nil"

validateDateObject(x, o, sinceVersion) ==
    IF o.t # "string" THEN "wrong type"
    ELSE IF o.v \notin DateStrings THEN "invalid"
    ELSE ValidateVersion(x, sinceVersion)

handleDefault(x, o) ==
    IF x.ValidationMode = "Strict"
    THEN DereferenceStringOrHexLiteral(x, o, 10)
    ELSE "nil"  \* xRefTable.Dereference(o) of a direct object

validateInfoDictDateSwapped(x, o) ==
    IF x.ValidationMode = "Strict"
    THEN validateString(x, o)
    ELSE validateDateObject(x, o, 10)

validateInfoDictDate(x, o) ==
    IF x.ValidationMode = "Relaxed"
    THEN validateString(x, o)
    ELSE validateDateObject(x, o, 10)

\* The values the validate closure of validateInfoDictTrapped accepts.
TrappedValues(x) ==
    IF x.ValidationMode = "Relaxed"
    THEN {"True", "False", "Unknown", "true", "false", "unknown"}
    ELSE {"True", "False", "Unknown"}

validateInfoDictTrappedNoBoolean(o, x) == DereferenceName(x, o, 13, TrappedValues(x))

validateInfoDictTrapped(o, x) ==
    LET err == DereferenceName(x, o, 13, TrappedValues(x)) IN
    IF err = "nil" THEN "nil"
    ELSE IF x.ValidationMode = "Relaxed" THEN DereferenceBoolean(x, o, 13)
    ELSE err

\* The switch of validateDocumentInfoDict: the error of entry k, v.
validateEntry(x, k, v) ==
    CASE k \in {"Title", "Subject", "Keywords"} -> DereferenceStringOrHexLiteral(x, v, 11)
      [] k \in {"Author", "Creator", "Producer"} -> DereferenceStringOrHexLiteral(x, v, 10)
      [] k \in {"CreationDate", "ModDate"} -> validateInfoDictDate(x, v)
      [] k = "Trapped" -> validateInfoDictTrapped(v, x)
      [] OTHER -> handleDefault(x, v)

\* The keys the info dictionaries of the model draw from; "Custom" is handled
\* by the default case.
InfoKeys == {"Title", "Author", "CreationDate", "ModDate", "Trapped", "Custom"}

\* The PDF versions 1.0 .. 1.3 are 10 .. 13. xRefTable.Info is nil, or an
\* object that dereferences to a dict, to nil, or to something that is no
\* dict. xRefTable.CatalogHasPieceInfo() is true, false or an error.
InitInfo ==
    /\ IdleStack
    /\ \E m \in {"Strict", "Relaxed"}, ver \in 10..13,
          i \in {"nil", "dict", "null", "notdict"}, p \in {"yes", "no", "err"} :
          proc = [at |-> "info", pc |-> "validateDocumentInfoObject",
                  x |-> [ValidationMode |-> m, Version |-> ver],
                  Info |-> i, PieceInfo |-> p,
                  seen |-> {}, last |-> [k |-> "-", v |-> [t |-> "-", v |-> "-"]], hasModDate |-> FALSE,
                  err |-> "nil", validate |-> "-"]

InfoAt(l) == proc.at = "info" /\ proc.pc = l

\* validateDocumentInfoObject returns err to validate.XRefTable.
InfoObjectReturns(e) == proc' = [proc EXCEPT !.pc = "XRefTable", !.err = e]

\* validateDocumentInfoObject up to the call of validateDocumentInfoDict,
\* and validateDocumentInfoDict up to its loop.
validateDocumentInfoObject ==
    /\ InfoAt("validateDocumentInfoObject")
    /\ CASE proc.Info = "nil" -> InfoObjectReturns("nil")
         [] proc.Info = "notdict" -> InfoObjectReturns("wrong type")
         [] proc.Info = "null" -> proc' = [proc EXCEPT !.pc = "CatalogHasPieceInfo"]
         [] OTHER -> proc' = [proc EXCEPT !.pc = "range"]
    /\ UNCHANGED stack

\* One iteration of for k, v := range d: the next entry is any entry not yet
\* visited; an error ends validateDocumentInfoDict with false, err.
RangeEntry ==
    /\ InfoAt("range")
    /\ \E k \in InfoKeys \ proc.seen, v \in Objects :
          LET err == validateEntry(proc.x, k, v) IN
          proc' = [proc EXCEPT !.seen = @ \cup {k}, !.last = [k |-> k, v |-> v],
                               !.hasModDate = IF err # "nil" THEN FALSE
                                              ELSE (@ \/ k = "ModDate"),
                               !.err = err,
                               !.pc = IF err # "nil" THEN "XRefTable" ELSE "range"]
    /\ UNCHANGED stack

\* The loop has visited every entry of d: return hasModDate, nil.
RangeEnd ==
    /\ InfoAt("range")
    /\ proc' = [proc EXCEPT !.pc = "CatalogHasPieceInfo"]
    /\ UNCHANGED stack

CatalogHasPieceInfo ==
    /\ InfoAt("CatalogHasPieceInfo")
    /\ CASE proc.PieceInfo = "err" -> InfoObjectReturns("catalog")
         [] proc.PieceInfo = "yes" /\ ~proc.hasModDate -> InfoObjectReturns("missing ModDate")
         [] OTHER -> InfoObjectReturns("nil")
    /\ UNCHANGED stack

\* validate.XRefTable returns the error of validateDocumentInfoObject to
\* ValidateContext and api.Validate.
XRefTable ==
    /\ InfoAt("XRefTable")
    /\ proc' = [proc EXCEPT !.pc = "Validate"]
    /\ UNCHANGED stack

\* api.Validate after ValidateContext: the error is wrapped and returned.
ValidateReturns ==
    /\ InfoAt("Validate")
    /\ proc' = [proc EXCEPT !.pc = "returned",
                  !.validate = IF proc.err = "nil" THEN "nil"
                               ELSE IF proc.x.ValidationMode = "Strict"
                                    THEN "validation error (try -mode=relaxed)"
                                    ELSE "validation error"]
    /\ UNCHANGED stack

NextInfo ==
    \/ validateDocumentInfoObject
    \/ RangeEntry
    \/ RangeEnd
    \/ CatalogHasPieceInfo
    \/ XRefTable
    \/ ValidateReturns

SpecInfo == InitInfo /\ [][NextInfo]_vars

\* -------------------------------------------------------------------- C11
\* validateDocumentInfoObject has returned after validateDocumentInfoDict
\* found every entry valid.
InfoObjectReturned == proc.at = "info" /\ proc.pc \in {"XRefTable", "Validate", "returned"}
AllEntriesValid ==
    /\ proc.Info = "dict"
    /\ proc.last.k \in proc.seen => validateEntry(proc.x, proc.last.k, proc.last.v) = "nil"

\* C11: with PieceInfo in the catalog and no ModDate in an otherwise valid
\* info dictionary, validation of the document info object succeeds in
\* Relaxed mode and fails with the missing-ModDate error in Strict mode.
C11_RelaxedAcceptsMissingModDate ==
    (InfoObjectReturned /\ AllEntriesValid /\ proc.PieceInfo = "yes"
        /\ "ModDate" \notin proc.seen) =>
        proc.err = (IF proc.x.ValidationMode = "Relaxed" THEN "nil" ELSE "missing ModDate")

\* C11 witness: Relaxed mode, a valid Title only, PieceInfo present, and the
\* validation has returned the missing-ModDate error.
C11_Witness ==
    /\ InfoObjectReturned /\ AllEntriesValid
    /\ proc.x.ValidationMode = "Relaxed"
    /\ proc.PieceInfo = "yes"
    /\ proc.seen = {"Title"}
    /\ proc.err = "missing ModDate"


\* -------------------------------------------------------------------- C12
\* The errors an entry of the info dictionary can fail with.
EntryErrors == {"wrong type", "invalid", "version"}
\* validateDocumentInfoDict has just validated the entry Trapped of a
\* document of version 1.3, the version the entry exists since.
TrappedValidated ==
    /\ proc.at = "info" /\ proc.last.k = "Trapped"
    /\ proc.x.Version >= 13
    /\ proc.pc = "range" \/ (proc.pc = "XRefTable" /\ proc.err \in EntryErrors)
TrappedAccepted == proc.pc = "range" /\ proc.err = "nil"
\* strings.ToLower on the name values of the model.
ToLower(s) ==
    CASE s \in {"True", "TRUE", "true"} -> "true"
      [] s \in {"False", "false"} -> "false"
      [] s \in {"Unknown", "unknown"} -> "unknown"
      [] s = "Yes" -> "yes"
      [] OTHER -> s
IsName(o, values) == o.t = "name" /\ o.v \in values

\* C12 as stated: Strict accepts Trapped exactly when it is one of the names
\* True, False, Unknown; Relaxed accepts it exactly when it is one of those
\* names in any letter case or a Boolean.
C12_TrappedCaseInsensitive ==
    TrappedValidated =>
        (TrappedAccepted <=>
            IF proc.x.ValidationMode = "Strict"
            THEN IsName(proc.last.v, {"True", "False", "Unknown"})
            ELSE \/ proc.last.v.t = "name"
                    /\ ToLower(proc.last.v.v) \in {"true", "false", "unknown"}
                 \/ proc.last.v.t = "bool")

\* C12 amended: for a document of version 1.3 or later, Strict accepts
\* Trapped exactly when it is one of the names True, False, Unknown; Relaxed
\* accepts it exactly when it is one of the names True, False, Unknown, true,
\* false, unknown or a Boolean.
C12_TrappedSpellings ==
    TrappedValidated =>
        (TrappedAccepted <=>
            IF proc.x.ValidationMode = "Strict"
            THEN IsName(proc.last.v, {"True", "False", "Unknown"})
            ELSE \/ IsName(proc.last.v, {"True", "False", "Unknown",
                                          "true", "false", "unknown"})
                 \/ proc.last.v.t = "bool")

\* C12 witness: Relaxed mode has accepted a Boolean in place of the name.
C12_Witness ==
    /\ TrappedValidated /\ TrappedAccepted
    /\ proc.x.ValidationMode = "Relaxed"
    /\ proc.last.v.t = "bool"

\* Relaxed mode has rejected the name TRUE.
C12_WitnessUpperCase ==
    /\ TrappedValidated /\ ~TrappedAccepted
    /\ proc.x.ValidationMode = "Relaxed"
    /\ proc.last.v = [t |-> "name", v |-> "TRUE"]

\* Strict mode has rejected the name true.
C12_WitnessStrict ==
    /\ TrappedValidated /\ ~TrappedAccepted
    /\ proc.x.ValidationMode = "Strict"
    /\ proc.last.v = [t |-> "name", v |-> "true"]


\* -------------------------------------------------------------------- C13
\* api.Validate has returned for a document whose info dictionary has an
\* entry that fails its validator rule.
EntryFailed ==
    /\ proc.at = "info" /\ proc.pc = "returned"
    /\ proc.last.k \in proc.seen
    /\ validateEntry(proc.x, proc.last.k, proc.last.v) # "nil"

\* C13: a validator rule failure on an info dictionary key is fatal in
\* Strict mode only: in Relaxed mode validation of the document and
\* api.Validate return success.
C13_RelaxedDemotesFailure ==
    EntryFailed =>
        IF proc.x.ValidationMode = "Relaxed"
        THEN proc.err = "nil" /\ proc.validate = "nil"
        ELSE proc.err # "nil" /\ proc.validate # "nil"

\* C13 witness: Relaxed mode, a Title that is an integer, and api.Validate
\* has returned the validation error.
C13_Witness ==
    /\ EntryFailed
    /\ proc.x.ValidationMode = "Relaxed"
    /\ proc.last = [k |-> "Title", v |-> [t |-> "int", v |-> "1"]]
    /\ proc.err = "wrong type"
    /\ proc.validate = "validation error"


\* -------------------------------------------------------------------- C14
\* RemovePages has returned after the selection was resolved.
RemoveSelected ==
    /\ cmd.Mode = "REMOVEPAGES" /\ IoReturned
    /\ \E i \in Kinds("select") : trace[i].r = "ok"

\* C14: RemovePages of R selected pages from a document of P pages returns an
\* error and writes nothing to w when R >= P; otherwise it writes, and the
\* document written has exactly P - R pages, none of them selected.
C14_RemovePagesKeepsAPage ==
    RemoveSelected =>
        LET P == ctx.PageCount
            R == Cardinality(ctx.SelectedPages)
        IN  IF R >= P
            THEN ret.io = "err" /\ Kinds("write") = {} /\ ctx.w = {}
            ELSE /\ Cardinality(Kinds("write")) = 1
                 /\ ret.io = "nil" =>
                       /\ Cardinality(ctx.w) = P - R
                       /\ ctx.w \subseteq 1..P
                       /\ ctx.w \cap ctx.SelectedPages = {}

\* C14 witness: every page of a document of three pages is selected and
\* RemovePages has returned the error without writing.
C14_Witness ==
    /\ RemoveSelected
    /\ ctx.PageCount = 3 /\ ctx.SelectedPages = {1, 2, 3}
    /\ ret.io = "err" /\ Kinds("write") = {}

\* Pages 1 and 3 of three are removed: page 2 is written.
C14_WitnessWritten ==
    /\ RemoveSelected
    /\ ctx.PageCount = 3 /\ ctx.SelectedPages = {1, 3}
    /\ ret.io = "nil" /\ ctx.w = {2}


\* -------------------------------------------------------------------- C15
RECURSIVE SumPages(_)
\* The page counts of the inputs 1..n, added up.
SumPages(n) == IF n <= 0 THEN 0 ELSE SumPages(n - 1) + PagesOf(n)

\* The inputs appended so far, in the order of the calls.
Appended == [i \in 1..Cardinality(Kinds("merge")) |->
                trace[CHOOSE j \in Kinds("merge") :
                        Cardinality({l \in Kinds("merge") : l <= j}) = i].c]

\* C15: Merge appends D2..Dn one at a time and in list order into the
\* context read from D1; what it writes is that context, holding the pages
\* of D1, D2, ..., Dn in this order, as many as the inputs have together;
\* nothing is written unless every input was read and appended without error.
C15_MergeConcatenates ==
    (cmd.Mode = "MERGE" /\ cmd.nIn >= 1) =>
        /\ \A i \in 1..Len(Appended) : Appended[i] = i + 1
        /\ \A j \in Kinds("merge") :
              \E i \in KindsOf("read", trace[j].c) : i < j /\ trace[i].r = "ok"
        /\ ctx.seq = [i \in 1..Len(ctx.seq) |-> i]
        /\ \A j \in Kinds("write") :
              /\ trace[j].c = Dest
              /\ \A i \in 1..(j - 1) : trace[i].r = "ok"
              /\ \A k \in 1..cmd.nIn : \E i \in KindsOf("read", k) : i < j
              /\ \A k \in 2..cmd.nIn : \E i \in KindsOf("merge", k) : i < j
              /\ Len(ctx.seq) = cmd.nIn
              /\ ctx.pages = SumPages(cmd.nIn)
        /\ ret.io = "nil" =>
              /\ Cardinality(Kinds("write")) = 1
              /\ ctx.w = 1..SumPages(cmd.nIn)

\* C15 witness: three inputs of 1, 2 and 3 pages are merged and written.
C15_Witness ==
    /\ cmd.Mode = "MERGE" /\ cmd.nIn = 3
    /\ ret.io = "nil"
    /\ Appended = <<2, 3>>
    /\ ctx.seq = <<1, 2, 3>>
    /\ ctx.w = 1..6

\* The second of three inputs cannot be appended: Merge returns the error
\* and writes nothing.
C15_WitnessError ==
    /\ cmd.Mode = "MERGE" /\ cmd.nIn = 3
    /\ ret.io = "err"
    /\ Appended = <<2>> /\ trace[Len(trace)].k = "merge"
    /\ Kinds("write") = {}


\* -------------------------------------------------------------------- C16
Transformations ==
    {"MERGE", "SPLIT", "TRIM", "ROTATE", "ADDWATERMARKS", "NUP", "IMPORTIMAGES",
     "INSERTPAGES", "REMOVEPAGES"}
\* The transformations that change the context before it is written; Split,
\* Trim and RemovePages write a selection of the pages of the context read.
Mutating == {"MERGE", "ROTATE", "ADDWATERMARKS", "NUP", "IMPORTIMAGES", "INSERTPAGES"}
\* The validation mode the caller configured: Relaxed for a nil configuration.
Configuration == IF cmd.confNil THEN "Relaxed" ELSE cmd.ValidationMode
\* The steps that change the context to be written.
Changes == Kinds("transform") \cup Kinds("merge") \cup Kinds("newpage") \cup Kinds("pages")
\* The input of the context to be written was validated in mode m.
InputValidated(m) ==
    \E i \in KindsOf("read", Dest) :
        /\ i < Len(trace) /\ trace[i + 1].k = "validate"
        /\ trace[i + 1].r = "ok" /\ trace[i + 1].m = m
\* Write j comes after a successful validation in mode m that follows every
\* change of the context.
ValidatedAgain(j, m) ==
    \E v \in KindsOf("validate", Dest) :
        /\ v < j /\ trace[v].r = "ok" /\ trace[v].m = m
        /\ \A i \in Changes \cup Kinds("optimize") : i < j => i < v

\* C16 as stated: every transformation whose input was validated in mode m
\* validates the transformed context again in mode m and writes only after
\* that validation succeeded; with ValidationMode None no validation runs.
C16_EveryTransformationRevalidates ==
    cmd.Mode \in Transformations =>
        /\ \A m \in ValidationModes \ {"None"} :
              InputValidated(m) => \A j \in Kinds("write") : ValidatedAgain(j, m)
        /\ Configuration = "None" => Kinds("validate") = {}

\* C16 amended: Merge, Rotate, AddWatermarks, NUp, ImportImages and
\* InsertPages validate the changed context again in the mode of the first
\* validation and write only after that succeeded; Split, Trim and RemovePages
\* validate the context once, before it is optimized, and write without a
\* second validation; every validation runs in the configured mode, but
\* RemovePages validates in Relaxed mode whatever is configured; with
\* ValidationMode None no validation runs, but for RemovePages.
C16_MutatingTransformationsRevalidate ==
    cmd.Mode \in Transformations =>
        /\ cmd.Mode \in Mutating =>
              \A m \in ValidationModes \ {"None"} :
                  InputValidated(m) => \A j \in Kinds("write") : ValidatedAgain(j, m)
        /\ cmd.Mode \notin Mutating =>
              /\ Cardinality(Kinds("validate")) <= 1
              /\ \A v \in Kinds("validate") :
                    v > 1 /\ trace[v - 1].k = "read" /\ \A i \in Kinds("optimize") : v < i
        /\ \A v \in Kinds("validate") :
              trace[v].m = IF cmd.Mode = "REMOVEPAGES" THEN "Relaxed" ELSE Configuration
        /\ (Configuration = "None" /\ cmd.Mode # "REMOVEPAGES") => Kinds("validate") = {}
        /\ (Configuration # "None" \/ cmd.Mode = "REMOVEPAGES") =>
              \A j \in Kinds("write") \cup Kinds("split") :
                  \E v \in KindsOf("validate", Dest) : v < j /\ trace[v].r = "ok"

\* C16 witness: Rotate in Strict mode validated the input, rotated, validated
\* again in Strict mode and wrote.
C16_Witness ==
    /\ cmd.Mode = "ROTATE" /\ Configuration = "Strict"
    /\ InputValidated("Strict")
    /\ \E j \in Kinds("write") : trace[j].r = "ok" /\ ValidatedAgain(j, "Strict")
    /\ Cardinality(Kinds("validate")) = 2

\* Trim wrote after one validation, which came before the optimization.
C16_WitnessTrim ==
    /\ cmd.Mode = "TRIM" /\ InputValidated("Relaxed")
    /\ \E j \in Kinds("write") : trace[j].r = "ok" /\ ~ValidatedAgain(j, "Relaxed")

\* RemovePages configured with ValidationMode None validated in Relaxed mode.
C16_WitnessRemovePages ==
    /\ cmd.Mode = "REMOVEPAGES" /\ Configuration = "None"
    /\ InputValidated("Relaxed")


\* -------------------------------------------------------------------- C17
\* handleEncryptCommand has handed its command to process.
EncryptProcessed == proc.at = "process" /\ proc.handler = "encrypt"

\* C17: the cipher and key length the encrypt command hands to the core are
\* one of RC4-40, RC4-128, AES-128, AES-256, and conf.EncryptKeyLength is one
\* of 40, 128, 256; any other combination of the flags is a usage failure.
C17_EncryptModes ==
    EncryptProcessed =>
        /\ <<proc.command.EncryptUsingAES, proc.command.EncryptKeyLength>> \in
              {<<FALSE, 40>>, <<FALSE, 128>>, <<TRUE, 128>>, <<TRUE, 256>>}
        /\ proc.command.EncryptKeyLength \in {40, 128, 256}

\* C17 witness: pdfcpu encrypt -mode aes -key 40 -opw opw in.pdf reaches
\* process with AES and a key length of 40.
C17_Witness ==
    /\ EncryptProcessed
    /\ proc.flags.mode = "aes" /\ proc.flags.key = "40"
    /\ proc.command.EncryptUsingAES /\ proc.command.EncryptKeyLength = 40

\* An empty key flag reaches process with a key length of 0.
C17_WitnessNoKey ==
    /\ EncryptProcessed
    /\ proc.flags.key = ""
    /\ proc.command.EncryptKeyLength = 0


\* -------------------------------------------------------------------- C18
\* What C18 says of a file based operation that has been left.
InPlaceResult ==
    IF InPlace
    THEN \* written to inFile.tmp, renamed over inFile only after success
         /\ \A j \in Kinds("write") : WriteTarget = Tmp(inFile)
         /\ fs[OutName] = cmd.fs0[OutName]
         /\ fs[inFile] # cmd.fs0[inFile] =>
               /\ ret.io = "nil" /\ panicking = "no"
               /\ open = {}
               /\ fs[inFile] = "new" /\ fs[Tmp(inFile)] = "absent"
    ELSE \* written to outFile, inFile neither renamed nor modified
         /\ \A j \in Kinds("write") : WriteTarget = cmd.outFile
         /\ fs[inFile] = cmd.fs0[inFile]
         /\ fs[Tmp(inFile)] = "absent"
         /\ FileReturned("nil") => fs[cmd.outFile] = "new"

\* C18: a file based operation with an empty outFile behaves as with outFile
\* equal to inFile: the result is written to inFile.tmp and renamed over
\* inFile only after the operation succeeded and both files were closed; with
\* another outFile the result is written to outFile and inFile is neither
\* renamed nor modified.
C18_InPlaceEquivalence ==
    (cmd.Mode \in TmpModes /\ FileLeft) => InPlaceResult

\* The same without the runs in which the io based function panics.
C18_UnlessPanic ==
    (cmd.Mode \in TmpModes /\ FileLeft /\ panicking = "no") => InPlaceResult

\* C18 witness: TrimFile("in.pdf", "") has renamed a partly written
\* in.pdf.tmp over in.pdf after Trim panicked in its write.
C18_Witness ==
    /\ cmd.Mode = "TRIM" /\ cmd.outFile = "" /\ FileLeft
    /\ panicking # "no"
    /\ trace # <<>> /\ trace[Len(trace)].k = "write"
    /\ cmd.fs0[inFile] = "orig" /\ fs[inFile] = "partial"

\* Without a panic: OptimizeFile("in.pdf", "in.pdf") has renamed the result
\* over in.pdf after success.
C18_WitnessRenamed ==
    /\ cmd.Mode = "OPTIMIZE" /\ cmd.outFile = inFile /\ FileLeft
    /\ FileReturned("nil")
    /\ fs[inFile] = "new" /\ fs[Tmp(inFile)] = "absent"


\* -------------------------------------------------------------------- C19
\* ValidateFile returns nil for ValidationMode None before it opens inFile.
ValidationBypassed == cmd.Mode = "VALIDATE" /\ conf.ValidationMode = "None"

NilConfCall ==
    /\ cmd.Mode \in {"ENCRYPT", "DECRYPT", "CHANGEUPW", "CHANGEOPW", "SETPERMISSIONS"}
    /\ cmd.entry \in {"file", "io"}
    /\ cmd.confNil

\* C20: EncryptFile, DecryptFile, ChangeUserPasswordFile,
\* ChangeOwnerPasswordFile, SetPermissions and SetPermissionsFile called with
\* a nil configuration return an error; no file is opened, created, renamed
\* or removed and the input is not read.
C20_NilConfRejected ==
    NilConfCall =>
        /\ fs = cmd.fs0 /\ open = {} /\ trace = <<>> /\ panicking = "no"
        /\ pc = "Done" =>
              IF cmd.entry = "io" THEN ret.io = "err" ELSE ret.file = "err" /\ ret.io = "-"

\* C20 witness: SetPermissionsFile("in.pdf", "", nil) has returned its error
\* and in.pdf, which exists, was not opened.
C20_Witness ==
    /\ NilConfCall /\ cmd.Mode = "SETPERMISSIONS" /\ cmd.entry = "file"
    /\ pc = "Done" /\ ret.file = "err"
    /\ fs[inFile] = "orig" /\ open = {}

\* SetPermissions(rs, w, nil) has returned its error.
C20_WitnessIo ==
    /\ NilConfCall /\ cmd.entry = "io"
    /\ pc = "Done" /\ ret.io = "err" /\ trace = <<>>

\* ---------------------------------------------------------------------
\* The xref table builder (pkg/pdfcpu/createTestPDF.go).
\*
\* A Go Dict is a map, so a dictionary handed to IndRefForNewObject and the
\* local variable that keeps it name the same object: `dicts` is the heap
\* of dictionaries by local name, an xref entry's Object is such a name and
\* `irs` are the indirect references the locals hold.  A builder function is
\* the list of its registrations and inserts, in source order.
\* ---------------------------------------------------------------------
MaxExtra == 2

NoRef == [ObjectNumber |-> 0 - 1, GenerationNumber |-> 0]

NewIndirectRef(n, g) == [ObjectNumber |-> n, GenerationNumber |-> g]

NilDict == [Type |-> "nil", Count |-> 0 - 1, hasKids |-> FALSE, Kids |-> <<>>, e |-> {}]

\* Steps of a builder function: a dictionary literal d of the given Type
\* whose entries e are pairs <<key, local holding the reference>>, ...
dict(d, type, e) ==
    [op |-> "dict", d |-> d, ir |-> "-", key |-> "-", Type |-> type, Count |-> 0 - 1, hasKids |-> FALSE, e |-> e, a |-> <<>>]

\* ... a page tree node literal with its Count and, if hasKids, an empty Kids array, ...
pagesDict(d, count, hasKids) ==
    [op |-> "dict", d |-> d, ir |-> "-", key |-> "-", Type |-> "Pages", Count |-> count, hasKids |-> hasKids, e |-> {}, a |-> <<>>]

\* ... ir, err := xRefTable.IndRefForNewObject(d), ...
new(d, ir) ==
    [op |-> "new", d |-> d, ir |-> ir, key |-> "-", Type |-> "-", Count |-> 0 - 1, hasKids |-> FALSE, e |-> {}, a |-> <<>>]

\* ... d.Insert(key, the references held by the locals a), ...
insert(d, key, a) ==
    [op |-> "insert", d |-> d, ir |-> "-", key |-> key, Type |-> "-", Count |-> 0 - 1, hasKids |-> FALSE, e |-> {}, a |-> a]

\* ... and the two assignments of createXRefTableWithRootDict.
assign(op, ir) ==
    [op |-> op, d |-> "-", ir |-> ir, key |-> "-", Type |-> "-", Count |-> 0 - 1, hasKids |-> FALSE, e |-> {}, a |-> <<>>]

NewFreeHeadXRefTableEntry ==
    [Free |-> TRUE, Generation |-> 65535, Offset |-> 0, Object |-> "nil"]

IndRefForNewObjectOffByOne(xRefTable, obj) ==
    [Table |-> (xRefTable.Size :> [Free |-> FALSE, Generation |-> 0, Offset |-> 0 - 1, Object |-> obj]) @@ xRefTable.Table,
     Size |-> xRefTable.Size + 1,
     ir |-> NewIndirectRef(xRefTable.Size + 1, 0)]

IndRefForNewObject(xRefTable, obj) ==
    [Table |-> (xRefTable.Size :> [Free |-> FALSE, Generation |-> 0, Offset |-> 0 - 1, Object |-> obj]) @@ xRefTable.Table,
     Size |-> xRefTable.Size + 1,
     ir |-> NewIndirectRef(xRefTable.Size, 0)]

createXRefTableWithRootDictNoHead ==
    << dict("rootDict", "Catalog", {}),
       new("rootDict", "ir"),
       assign("root", "ir") >>

createXRefTableWithRootDict ==
    << assign("head", "-"),
       dict("rootDict", "Catalog", {}),
       new("rootDict", "ir"),
       assign("root", "ir") >>

createPage(parentPageIndRef) ==
    << dict("pageDict", "Page", {<<"Parent", parentPageIndRef>>}),
       dict("fontDict", "Font", {}),
       new("fontDict", "fIndRef"),
       insert("pageDict", "Resources", <<"fIndRef">>),
       dict("contents", "Stream", {}),
       new("contents", "contentsIr"),
       insert("pageDict", "Contents", <<"contentsIr">>),
       new("pageDict", "pageIndRef") >>

addPageTreeWithoutPage ==
    << pagesDict("pagesDict", 0, TRUE),
       new("pagesDict", "pagesRootIndRef"),
       insert("rootDict", "Pages", <<"pagesRootIndRef">>) >>

addPageTreeWithSamplePage ==
    << pagesDict("pagesDict", 1, FALSE),
       new("pagesDict", "parentPageIndRef") >>
    \o createPage("parentPageIndRef")
    \o << insert("pagesDict", "Kids", <<"pageIndRef">>),
          insert("rootDict", "Pages", <<"parentPageIndRef">>) >>

CreateDemoXRef == createXRefTableWithRootDict \o addPageTreeWithSamplePage

CreateContextWithXRefTable == createXRefTableWithRootDict \o addPageTreeWithoutPage

addResources ==
    << dict("fontDict", "Font", {}),
       new("fontDict", "fIndRef"),
       dict("anyXObject", "XObject", {}),
       new("anyXObject", "anyXObject"),
       dict("halftoneType6", "Halftone", {}),
       new("halftoneType6", "indRefHalfToneType6"),
       dict("halftoneType10", "Halftone", {}),
       new("halftoneType10", "indRefHalfToneType10"),
       dict("halftoneType16", "Halftone", {}),
       new("halftoneType16", "indRefHalfToneType16"),
       dict("functionStream", "Function", {}),
       new("functionStream", "indRefFunctionStream"),
       insert("pageDict", "Resources",
              <<"fIndRef", "anyXObject", "indRefHalfToneType6", "indRefFunctionStream",
                "indRefHalfToneType10", "indRefHalfToneType16">>) >>

addContents ==
    << dict("contents", "Stream", {}),
       new("contents", "contentsIr"),
       insert("pageDict", "Contents", <<"contentsIr">>) >>

\* The annotation creators are declared elsewhere; each registers one
\* annotation dictionary whose P entry is the page it is shown on.
createAnnotsArray(pageIndRef) ==
    LET f == << "createTextAnnotation", "createLinkAnnotation", "createFreeTextAnnotation",
                "createLineAnnotation", "createSquareAnnotation", "createCircleAnnotation",
                "createPolygonAnnotation", "createPolyLineAnnotation", "createHighlightAnnotation",
                "createUnderlineAnnotation", "createSquigglyAnnotation", "createStrikeOutAnnotation",
                "createCaretAnnotation", "createStampAnnotation", "createInkAnnotation",
                "createPopupAnnotation", "createFileAttachmentAnnotation", "createSoundAnnotation",
                "createMovieAnnotation", "createScreenAnnotation", "createWidgetAnnotation",
                "createPrinterMarkAnnotation", "createWaterMarkAnnotation", "create3DAnnotation",
                "createRedactAnnotation", "createLinkAnnotationWithRemoteGoToAction",
                "createLinkAnnotationWithEmbeddedGoToAction", "createLinkAnnotationDictWithLaunchAction",
                "createLinkAnnotationDictWithThreadAction", "createLinkAnnotationDictWithSoundAction",
                "createLinkAnnotationDictWithMovieAction", "createLinkAnnotationDictWithHideAction",
                "createTrapNetAnnotation" >>
    IN  [i \in 1..(2 * Len(f)) |->
            IF i % 2 = 1 THEN dict(f[(i + 1) \div 2], "Annot", {<<"P", pageIndRef>>})
            ELSE new(f[i \div 2], f[i \div 2])]
        \o << insert("pageDict", "Annots", f) >>

createPageWithAnnotations(parentPageIndRef) ==
    << dict("pageDict", "Page", {<<"Parent", parentPageIndRef>>}) >>
    \o addResources
    \o addContents
    \o << new("pageDict", "pageIndRef"),
          insert("pageDict", "SeparationInfo", <<"pageIndRef">>) >>
    \o createAnnotsArray("pageIndRef")

createPageWithAcroForm(parentPageIndRef, annotsArray) ==
    << dict("pageDict", "Page", {<<"Parent", parentPageIndRef>>}) >>
    \o addResources
    \o addContents
    \o << insert("pageDict", "Annots", annotsArray),
          new("pageDict", "pageIndRef") >>

addPageTreeWithAnnotations ==
    << pagesDict("pagesDict", 1, FALSE),
       new("pagesDict", "parentPageIndRef") >>
    \o createPageWithAnnotations("parentPageIndRef")
    \o << insert("pagesDict", "Kids", <<"pageIndRef">>),
          insert("rootDict", "Pages", <<"parentPageIndRef">>) >>

addPageTreeWithAcroFields(annotsArray) ==
    << pagesDict("pagesDict", 1, FALSE),
       new("pagesDict", "parentPageIndRef") >>
    \o createPageWithAcroForm("parentPageIndRef", annotsArray)
    \o << insert("pagesDict", "Kids", <<"pageIndRef">>),
          insert("rootDict", "Pages", <<"parentPageIndRef">>) >>

createThreadDict(pageIndRef) ==
    << dict("d", "Thread", {}),
       new("d", "dIndRef"),
       dict("d1", "Bead", {<<"T", "dIndRef">>, <<"P", pageIndRef>>}),
       new("d1", "d1IndRef"),
       insert("d", "F", <<"d1IndRef">>),
       dict("d2", "Bead", {<<"T", "dIndRef">>, <<"N", "d1IndRef">>, <<"V", "d1IndRef">>, <<"P", pageIndRef>>}),
       new("d2", "d2IndRef"),
       insert("d1", "N", <<"d2IndRef">>),
       insert("d1", "V", <<"d2IndRef">>) >>

addThreads(pageIndRef) ==
    createThreadDict(pageIndRef)
    \o << dict("threads", "Array", {<<"0", "dIndRef">>}),
          new("threads", "threadsIr"),
          insert("rootDict", "Threads", <<"threadsIr">>) >>

addSpiderInfo ==
    << dict("webCaptureInfoDict", "SpiderInfo", {}),
       dict("captureCmdDict", "CaptureCmd", {}),
       new("captureCmdDict", "captureCmdIr"),
       insert("webCaptureInfoDict", "C", <<"captureCmdIr">>),
       new("webCaptureInfoDict", "webCaptureInfoIr"),
       insert("rootDict", "SpiderInfo", <<"webCaptureInfoIr">>) >>

CreateAnnotationDemoXRef ==
    createXRefTableWithRootDict \o addPageTreeWithAnnotations \o addThreads("pageIndRef") \o addSpiderInfo

createAcroFormDict ==
    << \* createTextField
       dict("text.fN", "XObject", {}), new("text.fN", "text.fN"),
       dict("text.fR", "XObject", {}), new("text.fR", "text.fR"),
       dict("text.fD", "XObject", {}), new("text.fD", "text.fD"),
       dict("text.fontDict", "Font", {}), new("text.fontDict", "text.fontDict"),
       dict("text", "Field", {<<"DR", "text.fontDict">>, <<"AP.N", "text.fN">>,
                              <<"AP.R", "text.fR">>, <<"AP.D", "text.fD">>}),
       new("text", "text"),
       \* createCheckBoxButtonField
       dict("checkBox.fontDict", "Font", {}), new("checkBox.fontDict", "checkBox.fontDict"),
       dict("checkBox.yesForm", "XObject", {<<"Resources", "checkBox.fontDict">>}),
       new("checkBox.yesForm", "checkBox.yesForm"),
       dict("checkBox.offForm", "XObject", {<<"Resources", "checkBox.fontDict">>}),
       new("checkBox.offForm", "checkBox.offForm"),
       dict("checkBox", "Field", {<<"AP.N.Yes", "checkBox.yesForm">>, <<"AP.N.Off", "checkBox.offForm">>}),
       new("checkBox", "checkBox"),
       \* createRadioButtonField
       dict("radioButton", "Field", {}), new("radioButton", "radioButton"),
       dict("radioButton.fontDict", "Font", {}), new("radioButton.fontDict", "radioButton.fontDict"),
       dict("selectedForm", "XObject", {<<"Resources", "radioButton.fontDict">>}),
       new("selectedForm", "selectedForm"),
       dict("offForm", "XObject", {<<"Resources", "radioButton.fontDict">>}),
       new("offForm", "offForm"),
       dict("r1", "Field", {<<"Parent", "radioButton">>, <<"AP.N.card1", "selectedForm">>, <<"AP.N.Off", "offForm">>}),
       new("r1", "indRefR1"),
       dict("r2", "Field", {<<"Parent", "radioButton">>, <<"AP.N.card2", "selectedForm">>, <<"AP.N.Off", "offForm">>}),
       new("r2", "indRefR2"),
       insert("radioButton", "Kids", <<"indRefR1", "indRefR2">>),
       \* createResetButton, createSubmitButton
       dict("resetButton.fN", "XObject", {}), new("resetButton.fN", "resetButton.fN"),
       dict("resetButton", "Field", {<<"AP.N", "resetButton.fN">>}), new("resetButton", "resetButton"),
       dict("submitButton.fN", "XObject", {}), new("submitButton.fN", "submitButton.fN"),
       dict("submitButton", "Field", {<<"AP.N", "submitButton.fN">>}), new("submitButton", "submitButton"),
       \* createXFAArray
       dict("sd1", "Stream", {}), new("sd1", "sd1"),
       dict("sd3", "Stream", {}), new("sd3", "sd3") >>

CreateAcroFormDemoXRef ==
    createXRefTableWithRootDict
    \o createAcroFormDict
    \o << insert("rootDict", "AcroForm",
                 <<"text", "checkBox", "radioButton", "resetButton", "submitButton", "sd1", "sd3">>) >>
    \o addPageTreeWithAcroFields(<<"text", "checkBox", "indRefR1", "indRefR2", "resetButton", "submitButton">>)

Builders ==
    [CreateDemoXRef |-> CreateDemoXRef,
     CreateAnnotationDemoXRef |-> CreateAnnotationDemoXRef,
     CreateAcroFormDemoXRef |-> CreateAcroFormDemoXRef,
     CreateContextWithXRefTable |-> CreateContextWithXRefTable]

InitBuilder ==
    /\ IdleStack
    /\ \E b \in DOMAIN Builders :
          proc = [at |-> "builder", pc |-> "build", builder |-> b, todo |-> Builders[b],
                  dicts |-> ("nil" :> NilDict), irs |-> ("-" :> NoRef),
                  xRefTable |-> [Table |-> <<>>, Size |-> 0, Root |-> NoRef, PageCount |-> 0],
                  err |-> "nil", extra |-> 0, rs |-> "-", mode |-> "-", n |-> 0, imgs |-> 0, prev |-> 0]

BuilderAt(l, op) ==
    /\ proc.at = "builder"
    /\ proc.pc = l
    /\ l = "build" => proc.todo # <<>> /\ Head(proc.todo).op = op

\* The object an indirect reference names in the table, and the
\* references a dictionary holds under a key.
Deref(p, ir) == p.dicts[p.xRefTable.Table[ir.ObjectNumber].Object]

RefsAt(d, key) == {x[2] : x \in {y \in d.e : y[1] = key}}

\* xRefTable.Table[0] = NewFreeHeadXRefTableEntry(); xRefTable.Size = &one;
\* xRefTable.PageCount = 0, and xRefTable.Root = ir.
Assign ==
    /\ \/ /\ BuilderAt("build", "head")
          /\ proc' = [proc EXCEPT !.todo = Tail(@),
                          !.xRefTable = [@ EXCEPT !.Table = (0 :> NewFreeHeadXRefTableEntry),
                                                  !.Size = 1, !.PageCount = 0]]
       \/ /\ BuilderAt("build", "root")
          /\ proc' = [proc EXCEPT !.todo = Tail(@),
                          !.xRefTable = [@ EXCEPT !.Root = proc.irs[Head(proc.todo).ir]]]
    /\ UNCHANGED stack

\* A dictionary literal: its references are the values the locals hold now.
NewDict ==
    /\ BuilderAt("build", "dict")
    /\ LET s == Head(proc.todo)
       IN  proc' = [proc EXCEPT !.todo = Tail(@),
                        !.dicts = (s.d :> [Type |-> s.Type, Count |-> s.Count, hasKids |-> s.hasKids,
                                           Kids |-> <<>>,
                                           e |-> {<<x[1], proc.irs[x[2]]>> : x \in s.e}]) @@ @]
    /\ UNCHANGED stack

\* d.Insert(key, value): the dictionary is changed in place, registered or not.
Insert ==
    /\ BuilderAt("build", "insert")
    /\ LET s == Head(proc.todo)
           a == [i \in 1..Len(s.a) |-> proc.irs[s.a[i]]]
       IN  proc' = [proc EXCEPT !.todo = Tail(@),
                        !.dicts[s.d] = IF s.key = "Kids"
                                       THEN [@ EXCEPT !.hasKids = TRUE, !.Kids = a]
                                       ELSE [@ EXCEPT !.e = @ \cup {<<s.key, a[i]>> : i \in 1..Len(a)}]]
    /\ UNCHANGED stack

\* ir, err := xRefTable.IndRefForNewObject(d); if err != nil { return nil, err }
Register ==
    /\ BuilderAt("build", "new")
    /\ \/ LET s == Head(proc.todo)
              r == IndRefForNewObject(proc.xRefTable, s.d)
          IN  proc' = [proc EXCEPT !.todo = Tail(@),
                           !.irs = (s.ir :> r.ir) @@ @,
                           !.xRefTable = [@ EXCEPT !.Table = r.Table, !.Size = r.Size]]
       \/ proc' = [proc EXCEPT !.pc = "failed", !.err = "err"]
    /\ UNCHANGED stack

\* return xRefTable, nil
BuilderReturns ==
    /\ proc.at = "builder" /\ proc.pc = "build" /\ proc.todo = <<>>
    /\ proc' = [proc EXCEPT !.pc = "built"]
    /\ UNCHANGED stack

\* Any later holder of the table adds a further object that refers to the
\* catalog or to the object registered last.
AddObject ==
    /\ proc.at = "builder" /\ proc.pc = "built" /\ proc.extra < MaxExtra
    /\ \E n \in {proc.xRefTable.Root.ObjectNumber, proc.xRefTable.Size - 1} :
          LET d == "extra" \o ToString(proc.extra)
              r == IndRefForNewObject(proc.xRefTable, d)
          IN  proc' = [proc EXCEPT !.extra = @ + 1,
                           !.dicts = (d :> [NilDict EXCEPT !.Type = "Extra",
                                                           !.e = {<<"Ref", NewIndirectRef(n, proc.xRefTable.Table[n].Generation)>>}]) @@ @,
                           !.irs = (d :> r.ir) @@ @,
                           !.xRefTable = [@ EXCEPT !.Table = r.Table, !.Size = r.Size]]
    /\ UNCHANGED stack

\* The page tree root of a table: ctx.Pages() and its dictionary.
Pages(p) == CHOOSE ir \in RefsAt(Deref(p, p.xRefTable.Root), "Pages") : TRUE

\* api.ImportImages up to its loop.  With rs == nil the context is the one
\* CreateContextWithXRefTable has just built; with a reader the table is
\* that of the file, and its PageCount is what validation counted, if it ran.
ImportImages ==
    /\ proc.at = "builder" /\ proc.pc = "built"
    /\ \E rs \in {"nil", "rs"}, m \in ValidationModes, n \in 1..MaxImgs :
          /\ rs = "nil" => proc.builder = "CreateContextWithXRefTable" /\ proc.extra = 0
          /\ proc' = [proc EXCEPT !.pc = "range", !.rs = rs, !.mode = m, !.n = n, !.imgs = n,
                          !.prev = Deref(proc, Pages(proc)).Count,
                          !.xRefTable.PageCount =
                              IF rs = "rs" /\ m # "None" THEN Deref(proc, Pages(proc)).Count ELSE 0]
    /\ UNCHANGED stack

\* pdf.AppendPageTree(indRef, 1, &pagesDict): one more kid, Count one higher.
AppendPageTree(d1, countd1, d2) ==
    [d2 EXCEPT !.hasKids = TRUE, !.Kids = Append(@, d1), !.Count = @ + countd1]

\* One turn of the loop over imgs: NewPageForImage registers the image and
\* the page that shows it, the page is appended and ctx.PageCount++.
RangeImgs ==
    /\ proc.at = "builder" /\ proc.pc = "range" /\ proc.imgs > 0
    /\ LET i == ToString(proc.imgs)
           pagesIndRef == Pages(proc)
           pagesName == proc.xRefTable.Table[pagesIndRef.ObjectNumber].Object
           r1 == IndRefForNewObject(proc.xRefTable, "image" \o i)
           r2 == IndRefForNewObject(r1, "imagePage" \o i)
       IN  proc' = [proc EXCEPT !.imgs = @ - 1,
                        !.dicts = [(("image" \o i) :> [NilDict EXCEPT !.Type = "XObject"])
                                   @@ (("imagePage" \o i) :>
                                          [NilDict EXCEPT !.Type = "Page",
                                                          !.e = {<<"Parent", pagesIndRef>>, <<"Resources", r1.ir>>}])
                                   @@ @
                                   EXCEPT ![pagesName] = AppendPageTree(r2.ir, 1, @)],
                        !.xRefTable = [@ EXCEPT !.Table = r2.Table, !.Size = r2.Size,
                                                !.PageCount = @ + 1]]
    /\ UNCHANGED stack

\* After the loop the context is validated again unless the mode is None;
\* validation counts the leaves of the page tree into PageCount.
ImportImagesReturns ==
    /\ proc.at = "builder" /\ proc.pc = "range" /\ proc.imgs = 0
    /\ proc' = [proc EXCEPT !.pc = "imported",
                    !.xRefTable.PageCount =
                        IF proc.mode # "None" THEN Deref(proc, Pages(proc)).Count ELSE @]
    /\ UNCHANGED stack

NextBuilder ==
    \/ Assign
    \/ NewDict
    \/ Insert
    \/ Register
    \/ BuilderReturns
    \/ AddObject
    \/ ImportImages
    \/ RangeImgs
    \/ ImportImagesReturns

SpecBuilder == InitBuilder /\ [][NextBuilder]_vars

\* ---------------------------------------------------------------------
\* Claims C21..C23: the tables the builder produces
\* ---------------------------------------------------------------------

\* The builder has returned its table (and the table may have grown since).
Produced == proc.at = "builder" /\ proc.pc \in {"built", "range", "imported"}

InUse(p, ir) ==
    /\ ir.ObjectNumber \in DOMAIN p.xRefTable.Table
    /\ ~p.xRefTable.Table[ir.ObjectNumber].Free
    /\ p.xRefTable.Table[ir.ObjectNumber].Generation = ir.GenerationNumber

\* C21: in every table a builder has produced, also after further objects
\* were added to it, object 0 exists, is free with generation 65535 and heads
\* the free list (its next free object is itself and nothing else is free),
\* and Root names an in-use catalog with an object number of at least 1.
C21_FreeHeadAndRoot ==
    Produced =>
        LET t == proc.xRefTable.Table
        IN  /\ 0 \in DOMAIN t
            /\ t[0].Free
            /\ t[0].Generation = 65535
            /\ t[0].Offset = 0
            /\ \A n \in DOMAIN t : t[n].Free => n = 0
            /\ proc.xRefTable.Root.ObjectNumber >= 1
            /\ InUse(proc, proc.xRefTable.Root)
            /\ Deref(proc, proc.xRefTable.Root).Type = "Catalog"

C21_Witness ==
    /\ Produced
    /\ proc.builder = "CreateAnnotationDemoXRef"
    /\ proc.extra >= 1
    /\ proc.xRefTable.Size > 40

C21_WitnessImported ==
    /\ Produced
    /\ proc.pc = "imported"
    /\ proc.xRefTable.Root.ObjectNumber = 1

\* The indirect references a dictionary or array holds.
RefsOf(d) == {x[2] : x \in d.e} \cup {d.Kids[i] : i \in 1..Len(d.Kids)}

Registered(p) == {n \in DOMAIN p.xRefTable.Table : ~p.xRefTable.Table[n].Free}

\* C22: every IndRefForNewObject call yields a fresh object number (no two
\* locals hold the same number, no two entries the same object), and every
\* indirect reference stored in Root or in a dictionary or array, also one
\* inserted after the dictionary was registered, names an in-use entry of
\* the same generation.
C22_NoDanglingReferences ==
    proc.at = "builder" =>
        /\ \A a, b \in DOMAIN proc.irs \ {"-"} :
              a # b => proc.irs[a].ObjectNumber # proc.irs[b].ObjectNumber
        /\ \A m, n \in Registered(proc) :
              m # n => proc.xRefTable.Table[m].Object # proc.xRefTable.Table[n].Object
        /\ proc.xRefTable.Root # NoRef => InUse(proc, proc.xRefTable.Root)
        /\ \A d \in DOMAIN proc.dicts : \A ir \in RefsOf(proc.dicts[d]) : InUse(proc, ir)

\* The thread of the annotation demo is built: bead d1 was registered
\* before bead d2 existed and now names it as its next and previous bead.
C22_Witness ==
    /\ Produced
    /\ "d1IndRef" \in DOMAIN proc.irs
    /\ "d2IndRef" \in DOMAIN proc.irs
    /\ proc.irs["d1IndRef"].ObjectNumber < proc.irs["d2IndRef"].ObjectNumber
    /\ <<"N", proc.irs["d2IndRef"]>> \in Deref(proc, proc.irs["d1IndRef"]).e
    /\ RefsAt(Deref(proc, proc.xRefTable.Root), "Threads") # {}

\* The radio button field of the AcroForm demo names its two kids, which
\* were registered after it, and the page lists them as annotations.
C22_WitnessAcroForm ==
    /\ Produced
    /\ "radioButton" \in DOMAIN proc.irs
    /\ Deref(proc, proc.irs["radioButton"]).Kids = <<proc.irs["indRefR1"], proc.irs["indRefR2"]>>
    /\ proc.irs["indRefR1"] \in RefsAt(Deref(proc, proc.irs["pageIndRef"]), "Annots")
    /\ proc.irs["radioButton"] \in RefsAt(Deref(proc, proc.xRefTable.Root), "AcroForm")

\* The page tree of a produced table: the root is a Pages node with a Kids
\* array and Count = number of leaves, every kid is a registered Page whose
\* Parent is the node that lists it.
PageTree(p) ==
    LET pages == Deref(p, Pages(p))
    IN  /\ RefsAt(Deref(p, p.xRefTable.Root), "Pages") = {Pages(p)}
        /\ pages.Type = "Pages"
        /\ pages.hasKids
        /\ pages.Count = Len(pages.Kids)
        /\ \A i \in 1..Len(pages.Kids) :
              /\ InUse(p, pages.Kids[i])
              /\ Deref(p, pages.Kids[i]).Type = "Page"
              /\ RefsAt(Deref(p, pages.Kids[i]), "Parent") = {Pages(p)}
              /\ \A j \in 1..Len(pages.Kids) : i # j => pages.Kids[i] # pages.Kids[j]

Imported == proc.at = "builder" /\ proc.pc = "imported"

\* C23: every produced table has a well-formed page tree, and after
\* ImportImages appended n pages, Count and ctx.PageCount both equal the
\* previous page count plus n.
C23_PageTree ==
    /\ Produced => PageTree(proc)
    /\ Imported =>
          /\ Deref(proc, Pages(proc)).Count = proc.prev + proc.n
          /\ proc.xRefTable.PageCount = proc.prev + proc.n

\* What holds of the code: the tree and its Count, and ctx.PageCount unless
\* a file was read with ValidationMode None.
C23_PageTreeAndCount ==
    /\ Produced => PageTree(proc)
    /\ Imported =>
          /\ Deref(proc, Pages(proc)).Count = proc.prev + proc.n
          /\ proc.xRefTable.PageCount =
                IF proc.rs = "rs" /\ proc.mode = "None" THEN proc.n ELSE proc.prev + proc.n

\* Images were appended to the page tree of a file read without validation.
C23_Witness ==
    /\ Imported
    /\ proc.rs = "rs"
    /\ proc.mode = "None"
    /\ proc.prev = 1
    /\ proc.n = 2
    /\ Deref(proc, Pages(proc)).Count = 3
    /\ proc.xRefTable.PageCount = 2

\* ---------------------------------------------------------------------
\* Claims C24..C30
\* ---------------------------------------------------------------------

MultipleOf90(n) == \E k \in (0 - 4)..4 : n = 90 * k

\* handleRotateCommand has run on a command line with an input file and a
\* rotation argument.
RotateHandled ==
    /\ proc.handler = "rotate"
    /\ proc.at \in {"process", "exited"}
    /\ proc.nargs >= 2
    /\ proc.pdf[1]

C24_WitnessAccepted ==
    /\ RotateHandled
    /\ proc.at = "process"
    /\ proc.command.rotation \in {0, 0 - 90}

\* C25: in an in-place file operation the temp file is renamed over inFile
\* only when the pipeline completed successfully; on every other exit, a
\* panic in the io based function that cli.Process recovers included, inFile
\* keeps its original content.
C25_InFileKeptUnlessSuccess ==
    (cmd.Mode \in TmpModes /\ InPlace) =>
        (fs[inFile] # cmd.fs0[inFile] => ret.io = "nil" /\ panicking = "no")

\* The same without the runs in which the io based function panics.
C25_UnlessPanic ==
    (cmd.Mode \in TmpModes /\ InPlace /\ panicking = "no") =>
        (fs[inFile] # cmd.fs0[inFile] => ret.io = "nil" /\ fs[inFile] = "new")

\* cli.Process has recovered the panic of Rotate and returned an error, and
\* in.pdf is the partly written temp file.
C25_Witness ==
    /\ cmd.entry = "cli" /\ cmd.Mode = "ROTATE" /\ InPlace
    /\ pc = "Done"
    /\ panicking # "no"
    /\ ret.cli # "nil"
    /\ cmd.fs0[inFile] = "orig"
    /\ fs[inFile] = "partial"
    /\ fs[Tmp(inFile)] = "absent"

\* The io based function is running its stages.
IoRunning == pc = "Stage"

\* C26: while the io based function of a call runs, conf.Cmd is the command
\* of that call, also when the configuration was used for another command
\* before.
C26_CmdIsCommandOfCall ==
    IoRunning => conf.Cmd = cmd.Mode

\* The same for every io based function but Optimize called with a
\* configuration of its caller.
C26_UnlessOptimize ==
    (IoRunning /\ ~(cmd.Mode = "OPTIMIZE" /\ ~cmd.confNil /\ cmd.entry # "cli")) =>
        conf.Cmd = cmd.Mode

\* api.OptimizeFile is called with the configuration of an earlier Validate
\* and writes under conf.Cmd = VALIDATE.
C26_Witness ==
    /\ IoRunning
    /\ cmd.Mode = "OPTIMIZE"
    /\ cmd.entry = "file"
    /\ ~cmd.confNil
    /\ conf.Cmd = "VALIDATE"
    /\ todo # <<>> /\ Head(todo).k = "write"

\* What C27 says of a call with the caller's own configuration: every
\* validation runs in the mode the caller configured, none runs for None,
\* and conf.ValidationMode keeps the caller's value.
ValidationModeKept ==
    /\ conf.ValidationMode = cmd.ValidationMode
    /\ \A j \in 1..Len(trace) :
          trace[j].k = "validate" =>
              /\ trace[j].m = cmd.ValidationMode
              /\ cmd.ValidationMode # "None"

\* C27: an api operation validates in the configured ValidationMode and
\* leaves conf.ValidationMode as the caller set it; RemovePages with Strict
\* validates strictly, with None it does not validate.
C27_ValidationModeKept ==
    ~cmd.confNil => ValidationModeKept

\* The same for every operation but RemovePages.
C27_UnlessRemovePages ==
    (~cmd.confNil /\ cmd.Mode # "REMOVEPAGES") => ValidationModeKept

\* RemovePagesFile, called with ValidationMode Strict, has returned after a
\* Relaxed validation and left the caller's configuration on Relaxed.
C27_Witness ==
    /\ cmd.Mode = "REMOVEPAGES"
    /\ cmd.entry = "file"
    /\ ~cmd.confNil
    /\ cmd.ValidationMode = "Strict"
    /\ FileReturned("nil")
    /\ conf.ValidationMode = "Relaxed"
    /\ \E j \in 1..Len(trace) : trace[j].k = "validate" /\ trace[j].m = "Relaxed"

\* No input file differs from what it was before the call unless the io
\* based function has returned without error.
InputsKept ==
    \A f \in InNames \cup ImgNames :
        fs[f] # cmd.fs0[f] => ret.io = "nil" /\ panicking = "no"

\* C28: no file based operation truncates or overwrites an input file
\* before the pipeline has succeeded, also not MergeFile with an outFile
\* that is one of inFiles or NUpFile with an outFile equal to inFiles[0].
C28_NoInputOverwrittenBeforeSuccess == InputsKept

\* The same without MergeFile and NUpFile writing to an input file, and
\* without the runs in which the io based function panics (C25).
C28_UnlessOutFileIsInput ==
    (panicking = "no" /\ ~(cmd.Mode \in {"MERGE", "NUP"} /\ cmd.outFile \in InNames)) =>
        InputsKept

\* MergeFile({in.pdf, in2.pdf}, in.pdf) has truncated in.pdf by creating
\* outFile and then failed to read it.
C28_Witness ==
    /\ cmd.Mode = "MERGE"
    /\ cmd.nIn = 2
    /\ cmd.outFile = InName(1)
    /\ cmd.fs0[InName(1)] = "orig"
    /\ FileLeft
    /\ panicking = "no"
    /\ ret.io = "err"
    /\ trace # <<>> /\ trace[1].k = "read" /\ trace[1].r = "err"
    /\ fs[InName(1)] # "orig"

\* NUpFile({in.pdf}, in.pdf, nup) has truncated in.pdf before NUp read it.
C28_WitnessNUp ==
    /\ cmd.Mode = "NUP"
    /\ cmd.outFile = InName(1)
    /\ cmd.fs0[InName(1)] = "orig"
    /\ pc = "Io"
    /\ fs[InName(1)] = "empty"

\* ---------------------------------------------------------------------
\* One document info dictionary validated in both modes
\* (validateDocumentInfoObject, called for Strict and then for Relaxed).
\* The dictionary d is whole from the start; the loop visits its keys in
\* any order, as Go's range over a map does.
\* ---------------------------------------------------------------------
InitModes ==
    /\ IdleStack
    /\ \E K \in SUBSET {"Title", "ModDate", "Trapped", "Custom"},
          ver \in {10, 13}, p \in {"yes", "no"} :
       \E d \in [K -> {[t |-> "name", v |-> "True"], [t |-> "name", v |-> "true"],
                       [t |-> "bool", v |-> "true"], [t |-> "string", v |-> "yesterday"],
                       [t |-> "int", v |-> "1"]}
                      \cup {[t |-> "string", v |-> s] : s \in DateStrings}] :
          proc = [at |-> "modes", pc |-> "range", d |-> d,
                  x |-> [ValidationMode |-> "Strict", Version |-> ver], PieceInfo |-> p,
                  keys |-> K, hasModDate |-> FALSE,
                  res |-> [Strict |-> "-", Relaxed |-> "-"]]

\* One turn of for k, v := range d, and the return of its error by
\* validateDocumentInfoDict and validateDocumentInfoObject.
RangeDict ==
    /\ proc.at = "modes" /\ proc.pc = "range"
    /\ \E k \in proc.keys :
          LET err == validateEntry(proc.x, k, proc.d[k]) IN
          IF err # "nil"
          THEN proc' = [proc EXCEPT !.pc = "returned", !.hasModDate = FALSE,
                                    !.res[proc.x.ValidationMode] = err]
          ELSE proc' = [proc EXCEPT !.keys = @ \ {k},
                                    !.hasModDate = @ \/ k = "ModDate"]
    /\ UNCHANGED stack

\* return hasModDate, nil; then the test for the required ModDate.
DictReturns ==
    /\ proc.at = "modes" /\ proc.pc = "range" /\ proc.keys = {}
    /\ proc' = [proc EXCEPT !.pc = "returned",
                    !.res[proc.x.ValidationMode] =
                        IF proc.PieceInfo = "yes" /\ ~proc.hasModDate
                        THEN "missing ModDate" ELSE "nil"]
    /\ UNCHANGED stack

\* The same document is validated again, now in Relaxed mode.
ValidateRelaxed ==
    /\ proc.at = "modes" /\ proc.pc = "returned" /\ proc.x.ValidationMode = "Strict"
    /\ proc' = [proc EXCEPT !.pc = "range", !.x.ValidationMode = "Relaxed",
                    !.keys = DOMAIN proc.d, !.hasModDate = FALSE]
    /\ UNCHANGED stack

NextModes == RangeDict \/ DictReturns \/ ValidateRelaxed

SpecModes == InitModes /\ [][NextModes]_vars

\* A document is acceptable in mode m, said without an order of its keys:
\* every entry is valid, and ModDate is there when PieceInfo is.
Acceptable(m) ==
    /\ \A k \in DOMAIN proc.d :
          validateEntry([ValidationMode |-> m, Version |-> proc.x.Version], k, proc.d[k]) = "nil"
    /\ ~(proc.PieceInfo = "yes" /\ "ModDate" \notin DOMAIN proc.d)

\* C29: Relaxed validation of the document info object accepts every
\* document Strict validation accepts, and whether validation returns an
\* error does not depend on the order in which the keys are visited: in
\* either mode the result is nil exactly for the acceptable documents.
C29_RelaxedAcceptsWhatStrictAccepts ==
    proc.at = "modes" =>
        /\ \A m \in {"Strict", "Relaxed"} :
              proc.res[m] # "-" => (proc.res[m] = "nil" <=> Acceptable(m))
        /\ (proc.res["Strict"] = "nil" /\ proc.res["Relaxed"] # "-") => proc.res["Relaxed"] = "nil"

\* A document with three entries went through both validations.
C29_Witness ==
    /\ proc.at = "modes"
    /\ DOMAIN proc.d = {"Title", "ModDate", "Trapped"}
    /\ proc.PieceInfo = "yes"
    /\ proc.res["Strict"] = "nil"
    /\ proc.res["Relaxed"] = "nil"

\* Relaxed accepts a document that Strict rejects.
C29_WitnessRelaxedOnly ==
    /\ proc.at = "modes"
    /\ Cardinality(DOMAIN proc.d) >= 2
    /\ proc.res["Strict"] \notin {"-", "nil"}
    /\ proc.res["Relaxed"] = "nil"

\* The next stage of the io based function works with ctx.PageCount.
UsesPageCount == pc = "Stage" /\ todo # <<>> /\ Head(todo).k \in {"split", "select"}

\* What C30 says: the page count in use is the number of pages of the
\* document, and a Split that returns nil has written ceil(P/span) files
\* that cover 1..P.
ActualPageCount ==
    /\ UsesPageCount => ctx.PageCount = ctx.pages
    /\ (cmd.Mode = "SPLIT" /\ cmd.span >= 1 /\ ret.io = "nil") =>
          written = SplitRanges(cmd.pages, cmd.span)

\* C30: Split, Trim, Rotate, InsertPages and the other operations that use
\* the page count work on the actual number of pages in every
\* ValidationMode, None included.
C30_ActualPageCount == ActualPageCount

\* The same for Relaxed and Strict.
C30_UnlessNone == conf.ValidationMode # "None" => ActualPageCount

\* Split of a three-page document with ValidationMode None has returned nil
\* and written no file.
C30_Witness ==
    /\ cmd.Mode = "SPLIT"
    /\ cmd.ValidationMode = "None"
    /\ cmd.pages = 3
    /\ cmd.span = 1
    /\ ret.io = "nil"
    /\ panicking = "no"
    /\ written = <<>>

====
